---- MODULE Spec2Model ----
(***************************************************************************)
(* Alignment viewer: decomposition of a measured curve into segments,      *)
(* corridor buffers, forward lookup (point -> station / offset / side),    *)
(* inverse lookup (station / offset / side -> point) and the map tool's    *)
(* press / move / release gestures, modelled from src/main.py.             *)
(*                                                                         *)
(* Numbers.  The program computes with Python floats.  A number is         *)
(* modelled as an extended rational [n, d]: d > 0 is the fraction n/d in   *)
(* lowest terms, and d = 0 is one of the three IEEE specials, n = 1 for    *)
(* +inf, n = -1 for -inf and n = 0 for nan.  Rounding is not modelled;     *)
(* every other float rule the code relies on is: inf and nan propagate,    *)
(* every comparison with nan is false, and dividing a float by zero        *)
(* raises ZeroDivisionError.                                               *)
(*                                                                         *)
(* Geometry.  A geometry is the sequence of its vertices, each with the    *)
(* measure written next to it in the WKT.  asPolyline() is modelled as     *)
(* returning those vertices, which for a circular string are the points    *)
(* that define the arc.                                                    *)
(***************************************************************************)
EXTENDS Integers, Sequences, FiniteSets, TLC

\* Python's None
None == [none |-> TRUE]

----------------------------------------------------------------------------
(* Float arithmetic                                                        *)

Abs(k) == IF k < 0 THEN -k ELSE k

Sign(k) == IF k > 0 THEN 1 ELSE IF k < 0 THEN -1 ELSE 0

RECURSIVE GCD(_, _)
GCD(a, b) == IF b = 0 THEN a ELSE GCD(b, a % b)

\* n/d divided through by g, a common divisor with the sign of d
Lowest(n, d, g) == [n |-> n \div g, d |-> d \div g]

\* the number n/d, d of either sign, in lowest terms
Norm(n, d) ==
    IF d = 0 THEN [n |-> Sign(n), d |-> 0]
    ELSE Lowest(n, d, Sign(d) * GCD(Abs(n), Abs(d)))

I(k) == [n |-> k, d |-> 1]

PosInf == [n |-> 1, d |-> 0]
NegInf == [n |-> -1, d |-> 0]
NaN == [n |-> 0, d |-> 0]

IsNaN(a) == a.d = 0 /\ a.n = 0
IsInf(a) == a.d = 0 /\ a.n # 0
IsFinite(a) == a.d > 0
IsZero(a) == a.d > 0 /\ a.n = 0

RNeg(a) == [n |-> -a.n, d |-> a.d]

\* a + b when one of them is inf or nan
AddSpecial(a, b) ==
    IF IsNaN(a) \/ IsNaN(b) THEN NaN
    ELSE IF a.d > 0 THEN b
    ELSE IF b.d > 0 \/ a.n = b.n THEN a
    ELSE NaN

RAdd(a, b) ==
    IF a.d > 0 /\ b.d > 0 THEN Norm(a.n * b.d + b.n * a.d, a.d * b.d)
    ELSE AddSpecial(a, b)

RSub(a, b) == RAdd(a, RNeg(b))

\* inf * 0 is nan
RMul(a, b) == Norm(a.n * b.n, a.d * b.d)

\* a / b when one of them is inf or nan
DivSpecial(a, b) ==
    IF IsNaN(a) \/ IsNaN(b) \/ (a.d = 0 /\ b.d = 0) THEN NaN
    ELSE IF a.d = 0 THEN [n |-> a.n * Sign(b.n), d |-> 0]
    ELSE I(0)

\* a / b for b # 0 (the callers raise ZeroDivisionError on a zero divisor)
RDiv(a, b) ==
    IF a.d > 0 /\ b.d > 0 THEN Norm(a.n * b.d, a.d * b.n)
    ELSE DivSpecial(a, b)

\* a < b when one of them is inf or nan
LtSpecial(a, b) ==
    IF IsNaN(a) \/ IsNaN(b) THEN FALSE
    ELSE IF a.d = 0 THEN a.n < 0 /\ ~(b.d = 0 /\ b.n < 0)
    ELSE b.n > 0

RLt(a, b) ==
    IF a.d > 0 /\ b.d > 0 THEN a.n * b.d < b.n * a.d
    ELSE LtSpecial(a, b)

RGt(a, b) == RLt(b, a)

REq(a, b) == ~IsNaN(a) /\ a = b

RLe(a, b) == RLt(a, b) \/ REq(a, b)

RGe(a, b) == RLe(b, a)

RAbs(a) == [n |-> Abs(a.n), d |-> a.d]

RMax(a, b) == IF RGt(b, a) THEN b ELSE a

\* Python truthiness of a float: everything but zero
Truthy(a) == ~IsZero(a)

RECURSIVE Newton(_, _)
Newton(k, x) ==
    IF (x + k \div x) \div 2 >= x THEN x ELSE Newton(k, (x + k \div x) \div 2)

\* floor of the square root of a natural number
ISqrt(k) == IF k = 0 THEN 0 ELSE Newton(k, k)

\* digits kept of a square root that is not rational
SqrtScale == 100

\* the square root of n/d from the integer roots rn of n and rd of d
RootOf(a, rn, rd) ==
    IF rn * rn = a.n /\ rd * rd = a.d THEN [n |-> rn, d |-> rd]
    ELSE Norm(ISqrt((a.n * SqrtScale * SqrtScale) \div a.d), SqrtScale)

\* math.sqrt: exact on the squares of rationals, else rounded down to
\* 1/SqrtScale; sqrt(inf) = inf, sqrt(nan) = nan
RSqrt(a) ==
    IF a.d = 0 THEN a
    ELSE RootOf(a, ISqrt(a.n), ISqrt(a.d))

Pt(x, y) == [x |-> x, y |-> y]

IPt(x, y) == [x |-> I(x), y |-> I(y)]

\* x squared
Sq(x) == RMul(x, x)

\* AlignmentSegment._distance_between_points / AlignmentMapTool._distance_between_points
distance_between_points(p1, p2) ==
    RSqrt(RAdd(Sq(RSub(p1.x, p2.x)), Sq(RSub(p1.y, p2.y))))

\* the point halfway between two points
Midpoint(a, b) == Pt(RDiv(RAdd(a.x, b.x), I(2)), RDiv(RAdd(a.y, b.y), I(2)))

\* slope of the perpendicular bisector of a-b, inf when a-b is horizontal
BisectorSlope(a, b) ==
    IF IsZero(RSub(b.y, a.y)) THEN PosInf
    ELSE RDiv(RNeg(RSub(b.x, a.x)), RSub(b.y, a.y))

\* the point at cx on the line of the given slope through m
OnBisector(cx, slope, m) == Pt(cx, RAdd(RMul(slope, RSub(cx, m.x)), m.y))

\* the last two lines of _circle_center_from_three_points branches: the
\* intersection of the bisectors through m1 and m2
CenterOnBisectors(m1, m2, slope1, slope2) ==
    IF slope1 = PosInf
    THEN [err |-> FALSE, c |-> OnBisector(m1.x, slope2, m2)]
    ELSE IF slope2 = PosInf
    THEN [err |-> FALSE, c |-> OnBisector(m2.x, slope1, m1)]
    ELSE IF slope1 = slope2
    THEN [err |-> TRUE, c |-> None]
    ELSE [err |-> FALSE,
          c |-> OnBisector(RDiv(RSub(RAdd(RSub(RMul(slope1, m1.x), RMul(slope2, m2.x)),
                                          m2.y), m1.y),
                                RSub(slope1, slope2)),
                           slope1, m1)]

\* _circle_center_from_three_points: the circumcentre by intersecting the
\* two perpendicular bisectors; err is the ZeroDivisionError raised when the
\* two bisector slopes are finite and equal
circle_center_from_three_points(p1, p_mid, p2) ==
    CenterOnBisectors(Midpoint(p1, p_mid), Midpoint(p_mid, p2),
                      BisectorSlope(p1, p_mid), BisectorSlope(p_mid, p2))

----------------------------------------------------------------------------
(* Angles, in radians                                                      *)

\* math.pi, to 1e-3: numbers are kept within 32 bits
Pi == [n |-> 1571, d |-> 500]

TwoPi == [n |-> 1571, d |-> 250]

HalfPi == [n |-> 1571, d |-> 1000]

\* math.atan of b/a for the directions (a, b), a >= 0, b >= 0, that the arcs
\* and query points of the model use, rounded to 1e-3
AtanBase(a, b) ==
    CASE a = 1 /\ b = 0 -> I(0)
      [] a = 0 /\ b = 1 -> HalfPi
      [] a = 1 /\ b = 1 -> [n |-> 1571, d |-> 2000]
      [] a = 4 /\ b = 3 -> [n |-> 161, d |-> 250]
      [] a = 3 /\ b = 4 -> [n |-> 927, d |-> 1000]
      [] a = 2 /\ b = 1 -> [n |-> 58, d |-> 125]
      [] a = 1 /\ b = 2 -> [n |-> 1107, d |-> 1000]
      [] a = 5 /\ b = 1 -> [n |-> 197, d |-> 1000]
      [] a = 1 /\ b = 5 -> [n |-> 1373, d |-> 1000]

\* the angle of a direction in the quadrant of (a, b) from the angle of
\* (|a|, |b|)
Quadrant(a, b, base) ==
    IF b >= 0 THEN (IF a >= 0 THEN base ELSE RSub(Pi, base))
    ELSE (IF a >= 0 THEN RNeg(base) ELSE RSub(base, Pi))

\* math.atan2 of the integer direction (a, b), g their greatest common divisor
AtanOf(a, b, g) == Quadrant(a, b, AtanBase(Abs(a) \div g, Abs(b) \div g))

\* math.atan2 when x or y is inf or nan
AtanSpecial(y, x) ==
    IF IsNaN(x) \/ IsNaN(y) THEN NaN
    ELSE IF y.d = 0 /\ x.d = 0
    THEN RMul(I(y.n), IF x.n > 0 THEN [n |-> 1571, d |-> 2000] ELSE [n |-> 4713, d |-> 2000])
    ELSE IF y.d = 0 THEN RMul(I(y.n), HalfPi)
    ELSE IF x.n > 0 THEN I(0)
    ELSE IF y.n >= 0 THEN Pi ELSE RNeg(Pi)

\* math.atan2(y, x), in (-pi, pi]
Atan2(y, x) ==
    IF x.d = 0 \/ y.d = 0 THEN AtanSpecial(y, x)
    ELSE IF x.n = 0 /\ y.n = 0 THEN I(0)
    ELSE AtanOf(x.n * y.d, y.n * x.d, GCD(Abs(x.n * y.d), Abs(y.n * x.d)))

\* floor of a finite number
RFloor(a) == a.n \div a.d

\* Python's a % m for floats, m > 0: the result has the sign of m
RMod(a, m) ==
    IF ~IsFinite(a) THEN NaN
    ELSE RSub(a, RMul(I(RFloor(RDiv(a, m))), m))

\* math.degrees
Degrees(a) == RDiv(RMul(a, I(180)), Pi)

----------------------------------------------------------------------------
(* AlignmentSegment                                                        *)

\* z component of the cross product of two plane vectors
Cross(ax, ay, bx, by) == RSub(RMul(ax, by), RMul(ay, bx))

\* cross product of the vectors from c to a and from c to b
CrossAbout(c, a, b) ==
    Cross(RSub(a.x, c.x), RSub(a.y, c.y), RSub(b.x, c.x), RSub(b.y, c.y))

\* is_between of calculate_square_buffer: whether the angle mid is passed
\* when turning from a to b in the given direction
is_between(a, mid, b, clockwise) ==
    IF clockwise
    THEN (IF RGt(a, b) THEN RGe(a, mid) /\ RGe(mid, b) ELSE RGe(a, mid) \/ RGe(mid, b))
    ELSE (IF RLt(a, b) THEN RLe(a, mid) /\ RLe(mid, b) ELSE RLe(a, mid) \/ RLe(mid, b))

\* is_clockwise from the two cross products
DirectionFromCrosses(cross_start_mid, cross_mid_end) ==
    IF RGt(RMul(cross_start_mid, cross_mid_end), I(0))
    THEN RLt(cross_start_mid, I(0))
    ELSE IF RLt(cross_mid_end, I(0))
         THEN RLt(RAbs(cross_start_mid), RAbs(cross_mid_end))
         ELSE RGt(RAbs(cross_start_mid), RAbs(cross_mid_end))

\* rotation direction of an arc as calculate_square_buffer derives it from
\* the cross products start x mid and mid x end about the centre
buffer_is_clockwise(p1, p_mid, p2, center) ==
    DirectionFromCrosses(CrossAbout(center, p1, p_mid), CrossAbout(center, p_mid, p2))

\* angle of p about center, normalised to [0, 2 pi)
NormAngle(p, center) ==
    RMod(RAdd(Atan2(RSub(p.y, center.y), RSub(p.x, center.x)), TwoPi), TwoPi)

\* the sweep, or its complement when the mid point is not passed
SweepOrComplement(direct, mid_is_between) ==
    IF mid_is_between THEN direct ELSE RSub(TwoPi, direct)

\* the turn from from_angle up to to_angle, through 0 when to_angle is not greater
TurnUp(from_angle, to_angle) ==
    IF RGt(to_angle, from_angle) THEN RSub(to_angle, from_angle)
    ELSE RAdd(RSub(TwoPi, from_angle), to_angle)

\* sweep of the arc from the angles of its three points, before the
\* comparison with the measure span
geometric_sweep(angle1, angle_mid, angle2, is_clockwise) ==
    SweepOrComplement(IF is_clockwise THEN TurnUp(angle2, angle1)
                      ELSE TurnUp(angle1, angle2),
                      is_between(angle1, angle_mid, angle2, is_clockwise))

\* the sweep after the comparison of radius * sweep with the measure span
corrected_sweep(seg, sweep_angle) ==
    IF RGt(RAbs(RSub(RMul(seg.radius, sweep_angle),
                     RSub(seg.end_measure, seg.start_measure))), I(1))
    THEN RDiv(RSub(seg.end_measure, seg.start_measure), seg.radius)
    ELSE sweep_angle

\* num_points = max(50, int(degrees / 2))
NumPoints(half_degrees) == IF half_degrees > 50 THEN half_degrees ELSE 50

\* the ring of sampled points, kept as the sector it approximates: centre,
\* inner and outer radius, start angle, sweep, direction and the number of
\* samples per side; err is the error int() raises on a sweep that is nan
\* or inf
Sector(seg, is_clockwise, angle1, sweep_angle) ==
    IF ~IsFinite(sweep_angle)
    THEN [err |-> TRUE, buf |-> None]
    ELSE [err |-> FALSE,
          buf |-> [kind |-> "sector", center |-> seg.center,
                   inner |-> RMax(RSub(seg.radius, seg.bufferDistance), I(0)),
                   outer |-> RAdd(seg.radius, seg.bufferDistance),
                   angle1 |-> angle1, sweep |-> sweep_angle,
                   clockwise |-> is_clockwise,
                   num_points |-> NumPoints(RFloor(RDiv(Degrees(sweep_angle), I(2))))]]

\* the arc branch of calculate_square_buffer from the direction and the
\* angles of the three points
SectorFromAngles(seg, is_clockwise, angle1, angle_mid, angle2) ==
    Sector(seg, is_clockwise, angle1,
           corrected_sweep(seg, geometric_sweep(angle1, angle_mid, angle2, is_clockwise)))

\* the arc branch of calculate_square_buffer
circular_buffer(seg) ==
    SectorFromAngles(seg,
        buffer_is_clockwise(seg.geometry[1], seg.geometry[2], seg.geometry[3], seg.center),
        NormAngle(seg.geometry[1], seg.center),
        NormAngle(seg.geometry[2], seg.center),
        NormAngle(seg.geometry[3], seg.center))

\* math.sqrt(dx*dx + dy*dy)
Hypot(dx, dy) == RSqrt(RAdd(Sq(dx), Sq(dy)))

\* the four corners of the rectangle about the chord s-e, (ox, oy) being the
\* unit vector along the chord times the buffer width
Rect(s, e, ox, oy) ==
    [kind |-> "rect",
     pts |-> << Pt(RSub(s.x, oy), RAdd(s.y, ox)), Pt(RAdd(s.x, oy), RSub(s.y, ox)),
                Pt(RAdd(e.x, oy), RSub(e.y, ox)), Pt(RSub(e.x, oy), RAdd(e.y, ox)) >>]

\* the rectangle about a chord of the given direction and length, None when
\* the length is zero
ChordBuffer(s, e, dx, dy, length, w) ==
    IF IsZero(length) THEN None
    ELSE Rect(s, e, RMul(RDiv(dx, length), w), RMul(RDiv(dy, length), w))

\* the direction and length of the chord s-e
ChordOf(s, e, dx, dy, w) == ChordBuffer(s, e, dx, dy, Hypot(dx, dy), w)

\* the line branch of calculate_square_buffer: the rectangle of half-width
\* bufferDistance about the chord from the first to the last vertex; None
\* when the chord has zero length
line_buffer(seg) ==
    ChordOf(seg.geometry[1], seg.geometry[Len(seg.geometry)],
            RSub(seg.geometry[Len(seg.geometry)].x, seg.geometry[1].x),
            RSub(seg.geometry[Len(seg.geometry)].y, seg.geometry[1].y),
            seg.bufferDistance)

\* the fields of a segment
SegmentRecord(geometry, start_measure, end_measure, segment_type, buffer_distance, cc) ==
    [err |-> cc.err,
     seg |-> [geometry |-> geometry,
              start_measure |-> start_measure,
              end_measure |-> end_measure,
              segment_type |-> segment_type,
              square_buffer |-> None,
              center |-> cc.c,
              radius |-> IF cc.err \/ cc.c = None THEN None
                         ELSE distance_between_points(cc.c, geometry[1]),
              bufferDistance |-> buffer_distance]]

\* AlignmentSegment.__init__; err is the ZeroDivisionError of the centre
AlignmentSegment(geometry, start_measure, end_measure, segment_type, buffer_distance) ==
    SegmentRecord(geometry, start_measure, end_measure, segment_type, buffer_distance,
                  IF segment_type = "circular" /\ Len(geometry) >= 3
                  THEN circle_center_from_three_points(geometry[1], geometry[2], geometry[3])
                  ELSE [err |-> FALSE, c |-> None])

\* the segment with the buffer b set
WithBuffer(seg, b) == [err |-> b.err, seg |-> [seg EXCEPT !.square_buffer = b.buf]]

\* AlignmentSegment.calculate_square_buffer: the segment with its buffer
\* set, or unchanged when the code returns early
calculate_square_buffer(seg) ==
    IF seg.segment_type = "circular"
    THEN IF Len(seg.geometry) < 3 THEN [err |-> FALSE, seg |-> seg]
         ELSE WithBuffer(seg, circular_buffer(seg))
    ELSE IF Len(seg.geometry) < 2 THEN [err |-> FALSE, seg |-> seg]
         ELSE WithBuffer(seg, [err |-> FALSE, buf |-> line_buffer(seg)])

----------------------------------------------------------------------------
(* Curve decomposition: AlignmentMapTool._parseAlignmentSegments           *)
(*                                                                         *)
(* An alignment geometry is [compound, shapes]: shapes is the list of      *)
(* component shapes of a COMPOUNDCURVE, or the one shape of a LINESTRING   *)
(* or CIRCULARSTRING.  A shape is [type, pts], pts the vertices [x, y, m]  *)
(* in WKT order, m the measure the code reads from the vertex text.        *)

\* the x, y of the vertices: QgsGeometry.fromWkt(...).asPolyline()
Polyline(pts) == [k \in 1..Len(pts) |-> Pt(pts[k].x, pts[k].y)]

\* one construction: [geometry, end_measure, segment_type] as the loops of
\* _parseAlignmentSegments hand them to AlignmentSegment
Piece(geometry, end_measure, segment_type) ==
    [geometry |-> geometry, end_measure |-> end_measure, segment_type |-> segment_type]

\* segment.calculate_square_buffer() after the constructor returned a
Buffered(a) == IF a.err THEN a ELSE calculate_square_buffer(a.seg)

\* self.segments.append(segment); current_measure = end_measure, reached
\* only when neither the constructor nor the buffer raised
Appended(st, end_measure, b) ==
    IF b.err
    THEN [st EXCEPT !.err = TRUE]
    ELSE [segments |-> Append(st.segments, b.seg),
          current_measure |-> end_measure,
          err |-> FALSE]

\* the same pass with the running measure left where it was
AppendSegmentNoAdvance(st, piece, bufferDistance) ==
    [Appended(st, piece.end_measure,
              Buffered(AlignmentSegment(piece.geometry, st.current_measure,
                                        piece.end_measure, piece.segment_type,
                                        bufferDistance)))
        EXCEPT !.current_measure = st.current_measure]

\* one pass of "build the segment, build its buffer, append, advance the
\* running measure"; st is [segments, current_measure, err], and err is set
\* when the constructor or the buffer raises, before anything is appended
AppendSegment(st, piece, bufferDistance) ==
    Appended(st, piece.end_measure,
             Buffered(AlignmentSegment(piece.geometry, st.current_measure,
                                       piece.end_measure, piece.segment_type,
                                       bufferDistance)))

\* windows that share no vertex: the 0-based indices 0, 3, 6, ...
ArcWindowsDisjoint(pts) ==
    [w \in 1..(Len(pts) \div 3) |->
        Piece(Polyline(SubSeq(pts, 3 * w - 2, 3 * w)), pts[3 * w].m, "circular")]

\* for j in range(0, num_points - 2, 2): one arc per window of 3 points,
\* the windows starting at the 0-based indices 0, 2, 4, ...
ArcWindows(pts) ==
    [w \in 1..((Len(pts) - 1) \div 2) |->
        Piece(Polyline(SubSeq(pts, 2 * w - 1, 2 * w + 1)), pts[2 * w + 1].m, "circular")]

\* for j in range(len(point_texts) - 1): one line per pair of vertices
LinePairs(pts) ==
    [j \in 1..(Len(pts) - 1) |->
        Piece(Polyline(SubSeq(pts, j, j + 1)), pts[j + 1].m, "line")]

\* the constructions of the try block for one component of a COMPOUNDCURVE
CompoundShape(shape) ==
    IF shape.type = "circular"
    THEN IF Len(shape.pts) > 3
         THEN ArcWindows(shape.pts)
         ELSE << Piece(Polyline(shape.pts), shape.pts[Len(shape.pts)].m, "circular") >>
    ELSE LinePairs(shape.pts)

RECURSIVE PathLength(_, _)
PathLength(poly, k) ==
    IF k >= Len(poly) THEN I(0)
    ELSE RAdd(distance_between_points(poly[k], poly[k + 1]), PathLength(poly, k + 1))

\* the angle turned about the centre from angle a1 to angle a2
TurnedAngle(clockwise, a1, a2) ==
    IF clockwise THEN RMod(RSub(a1, a2), TwoPi) ELSE RMod(RSub(a2, a1), TwoPi)

\* radius times the angle turned, the centre being cc.c
ArcAbout(poly, clockwise, cc) ==
    RMul(distance_between_points(cc.c, poly[1]),
         TurnedAngle(clockwise, NormAngle(poly[1], cc.c), NormAngle(poly[3], cc.c)))

\* the length from the cross product of p1->mid and p1->p2
ArcTurning(poly, turn) ==
    IF IsZero(turn) THEN PathLength(poly, 1)
    ELSE ArcAbout(poly, RLt(turn, I(0)),
                  circle_center_from_three_points(poly[1], poly[2], poly[3]))

\* QgsGeometry.length() of a three-point circular string: radius times the
\* angle turned from the first point through the second to the third, or
\* the length of the straight path when the points are collinear
ArcLength(poly) == ArcTurning(poly, CrossAbout(poly[1], poly[2], poly[3]))

\* alignmentGeom.length()
GeomLength(shape) ==
    IF shape.type = "circular" THEN ArcLength(Polyline(shape.pts))
    ELSE PathLength(Polyline(shape.pts), 1)

\* the constructions of the else branch of _parseAlignmentSegments: a
\* single LINESTRING or CIRCULARSTRING
SingleShape(shape, startMeasure) ==
    IF shape.type = "circular" /\ Len(shape.pts) > 3
    THEN ArcWindows(shape.pts)
    ELSE << Piece(Polyline(shape.pts), RAdd(startMeasure, GeomLength(shape)), shape.type) >>

\* the constructions of one try block in turn; the first that raises ends
\* the block
RECURSIVE TryBlock(_, _, _, _)
TryBlock(pieces, k, st, bufferDistance) ==
    IF st.err \/ k > Len(pieces) THEN st
    ELSE TryBlock(pieces, k + 1, AppendSegment(st, pieces[k], bufferDistance),
                  bufferDistance)

\* for i, segment_text in enumerate(segment_texts): an error ends the
\* block it occurs in, and the loop continues with the next block
RECURSIVE CompoundShapes(_, _, _, _)
CompoundShapes(blocks, i, st, bufferDistance) ==
    IF i > Len(blocks) THEN st
    ELSE CompoundShapes(blocks, i + 1,
                        [TryBlock(blocks[i], 1, st, bufferDistance) EXCEPT !.err = FALSE],
                        bufferDistance)

\* the try blocks of a geometry: one per component of a COMPOUNDCURVE, one
\* for a single LINESTRING or CIRCULARSTRING
TryBlocks(geom, startMeasure) ==
    IF geom.compound
    THEN [i \in 1..Len(geom.shapes) |-> CompoundShape(geom.shapes[i])]
    ELSE << SingleShape(geom.shapes[1], startMeasure) >>

\* _parseAlignmentSegments: the segment list after the call, which appends
\* to the list the tool already has
parseAlignmentSegments(segments, geom, startMeasure, bufferDistance) ==
    IF geom = None THEN segments
    ELSE CompoundShapes(TryBlocks(geom, startMeasure), 1,
                        [segments |-> segments, current_measure |-> startMeasure,
                         err |-> FALSE],
                        bufferDistance).segments

----------------------------------------------------------------------------
(* Forward lookup: AlignmentMapTool                                        *)

\* a parameter along a piece, kept within the piece
ClampUnit(t) == IF RLt(t, I(0)) THEN I(0) ELSE IF RGt(t, I(1)) THEN I(1) ELSE t

\* the point q of a piece with its distance along the piece and from p
PieceHit(q, p, along) == [pt |-> q, along |-> along, dist |-> distance_between_points(q, p)]

\* the point of the piece from a in direction (dx, dy) at parameter t
PieceAt(a, p, dx, dy, length, t) ==
    PieceHit(Pt(RAdd(a.x, RMul(t, dx)), RAdd(a.y, RMul(t, dy))), p, RMul(t, length))

\* the closest point of the piece from a in direction (dx, dy), len2 its
\* squared length
ClosestAlong(a, p, dx, dy, len2) ==
    PieceAt(a, p, dx, dy, RSqrt(len2),
            IF IsZero(len2) THEN I(0)
            ELSE ClampUnit(RDiv(RAdd(RMul(RSub(p.x, a.x), dx), RMul(RSub(p.y, a.y), dy)),
                                len2)))

\* closest point of the piece a-b to p, with its distance from a along the piece
ClosestOnPiece(a, p, dx, dy) == ClosestAlong(a, p, dx, dy, RAdd(Sq(dx), Sq(dy)))

\* the closer of the candidate c on a piece starting at distance before and
\* the best found so far
Closer(before, c, best) ==
    IF RLt(c.dist, best.dist)
    THEN [along |-> RAdd(before, c.along), dist |-> c.dist, pt |-> c.pt]
    ELSE best

\* QgsGeometry.lineLocatePoint: distance along the polyline, from vertex k
\* on, of its point closest to p (the first one when several are as close);
\* best is the closest found so far and before the length of the pieces passed
RECURSIVE LocateFrom(_, _, _, _, _)
LocateFrom(poly, k, p, before, best) ==
    IF k >= Len(poly) THEN best
    ELSE LocateFrom(poly, k + 1, p,
                    RAdd(before, distance_between_points(poly[k], poly[k + 1])),
                    Closer(before,
                           ClosestOnPiece(poly[k], p, RSub(poly[k + 1].x, poly[k].x),
                                          RSub(poly[k + 1].y, poly[k].y)),
                           best))

lineLocatePoint(poly, p) ==
    LocateFrom(poly, 1, p, I(0), [along |-> I(0), dist |-> PosInf, pt |-> poly[1]]).along

\* the point at the fraction f of the way from a to b
Between(a, b, f) ==
    Pt(RAdd(a.x, RMul(f, RSub(b.x, a.x))), RAdd(a.y, RMul(f, RSub(b.y, a.y))))

\* QgsGeometry.interpolate(distance).asPoint(): the point at that distance
\* along the polyline; err when the distance is negative or beyond the end,
\* where interpolate returns a null geometry and asPoint raises.  length is
\* the length of the piece from vertex k
RECURSIVE InterpolateFrom(_, _, _, _)
InterpolateFrom(poly, k, d, length) ==
    IF RLe(d, length)
    THEN [err |-> FALSE,
          pt |-> IF IsZero(length) THEN poly[k]
                 ELSE Between(poly[k], poly[k + 1], RDiv(d, length))]
    ELSE IF k + 1 >= Len(poly) THEN [err |-> TRUE, pt |-> None]
    ELSE InterpolateFrom(poly, k + 1, RSub(d, length),
                         distance_between_points(poly[k + 1], poly[k + 2]))

interpolate(poly, d) ==
    IF ~IsFinite(d) \/ RLt(d, I(0)) \/ Len(poly) < 2 THEN [err |-> TRUE, pt |-> None]
    ELSE InterpolateFrom(poly, 1, d, distance_between_points(poly[1], poly[2]))

\* the point of the circle in the direction (vector_x, vector_y) from the centre
OnCircle(center, radius, vector_x, vector_y, distance) ==
    IF IsZero(distance) THEN Pt(RAdd(center.x, radius), center.y)
    ELSE Pt(RAdd(center.x, RMul(RDiv(vector_x, distance), radius)),
            RAdd(center.y, RMul(RDiv(vector_y, distance), radius)))

\* _closest_point_on_arc_to_given_point
closest_point_on_arc_to_given_point(center, radius, given_point) ==
    OnCircle(center, radius, RSub(given_point.x, center.x), RSub(given_point.y, center.y),
             distance_between_points(given_point, center))

\* an angle in [0, 2 pi) brought into (-pi, pi]
PastPi(m) == IF RGt(m, Pi) THEN RSub(m, TwoPi) ELSE m

\* an angle difference brought into (-pi, pi]: atan2(sin(a), cos(a))
WrapPi(a) == IF ~IsFinite(a) THEN NaN ELSE PastPi(RMod(a, TwoPi))

\* the sign of the curvature from the cross product
SignedCurvature(cross, curvature_val) ==
    IF RGt(cross, I(0)) THEN RNeg(curvature_val) ELSE curvature_val

\* atan2 of the direction from center to p
AngleAbout(p, center) == Atan2(RSub(p.y, center.y), RSub(p.x, center.x))

\* AlignmentMapTool._calculate_curvature / AlignmentViewerPlugin._calculate_curvature:
\* the angle from p1 to p2 about the centre, in degrees, negative when the
\* cross product of centre->p1 and centre->p2 is positive
calculate_curvature(p1, p_mid, p2, center) ==
    SignedCurvature(CrossAbout(center, p1, p2),
                    Degrees(RAbs(WrapPi(RSub(AngleAbout(p2, center),
                                             AngleAbout(p1, center))))))

\* segment.cached_curvature: computed at the first use and kept; the
\* segment's points and centre never change, so it is this value at every use
cached_curvature(seg) ==
    calculate_curvature(seg.geometry[1], seg.geometry[2], seg.geometry[3], seg.center)

\* the angle difference normalised by the direction of the curvature
DirectedDiff(angle_diff, curvature) ==
    IF RGt(curvature, I(0))
    THEN (IF RGt(angle_diff, I(0)) THEN RSub(angle_diff, TwoPi) ELSE angle_diff)
    ELSE (IF RLt(angle_diff, I(0)) THEN RAdd(angle_diff, TwoPi) ELSE angle_diff)

\* _calculate_station_on_arc
calculate_station_on_arc(p1, p2, closest_point, center, radius, curvature, start_measure) ==
    IF RLt(distance_between_points(p1, closest_point), [n |-> 1, d |-> 1000])
    THEN start_measure
    ELSE RAdd(start_measure,
              RMul(radius,
                   RAbs(DirectedDiff(RSub(AngleAbout(closest_point, center),
                                          AngleAbout(p1, center)),
                                     curvature))))

\* the side from the signed offset
SideOf(signed) ==
    IF RLt(RAbs(signed), [n |-> 1, d |-> 1000]) THEN "on-line"
    ELSE IF RGt(signed, I(0)) THEN "left"
    ELSE "right"

\* _determine_side_for_circular_string
determine_side_for_circular_string(center, radius, given_point, curvature) ==
    SideOf(RMul(IF RGt(curvature, I(0)) THEN I(1) ELSE I(-1),
                RSub(distance_between_points(given_point, center), radius)))

\* the side taken from the vector from the point to its projection
determineSideReversed(pt, proj, segment) ==
    IF Len(segment.geometry) < 2 THEN "undefined"
    ELSE SideOf(Cross(RSub(segment.geometry[Len(segment.geometry)].x, segment.geometry[1].x),
                      RSub(segment.geometry[Len(segment.geometry)].y, segment.geometry[1].y),
                      RSub(proj.x, pt.x), RSub(proj.y, pt.y)))

\* _determineSide
determineSide(pt, proj, segment) ==
    IF Len(segment.geometry) < 2 THEN "undefined"
    ELSE SideOf(Cross(RSub(segment.geometry[Len(segment.geometry)].x, segment.geometry[1].x),
                      RSub(segment.geometry[Len(segment.geometry)].y, segment.geometry[1].y),
                      RSub(pt.x, proj.x), RSub(pt.y, proj.y)))

\* QgsGeometry.contains for a buffer and a point: the interior of the ring.
\* A rectangle holds the points strictly on one side of all four edges; a
\* ring of samples holds the points between its chords.
RECURSIVE SameSide(_, _, _, _)
SameSide(pts, k, p, s) ==
    IF k > Len(pts) THEN TRUE
    ELSE /\ RGt(RMul(I(s), CrossAbout(pts[k], pts[(k % Len(pts)) + 1], p)), I(0))
         /\ SameSide(pts, k + 1, p, s)

\* the whole number of 1/unit in a number a >= 0
Scaled(a, unit) == (a.n \div a.d) * unit + ((a.n % a.d) * unit) \div a.d

\* a/b < c/d for a, c >= 0 and b, d > 0, by whole parts and remainders
RECURSIVE FracLess(_, _, _, _)
FracLess(a, b, c, d) ==
    IF a \div b # c \div d THEN a \div b < c \div d
    ELSE IF c % d = 0 THEN FALSE
    ELSE IF a % b = 0 THEN TRUE
    ELSE FracLess(d, c % d, b, a % b)

\* 1 - cos(h) / cos(x) to second order, (h * h - x * x) / 2, for a point
\* turned x from the middle of the chord between two samples that are 2h
\* apart: w is the sweep in units of 1e-5 radian, n the number of chords
\* per side, and x2n the angle x times 2n
GapOf(w, x2n, n) ==
    [n |-> (((w - x2n) \div (2 * n)) * ((w + x2n) \div (2 * n))) \div 10,
     d |-> 2000000000]

\* the chord the angle t falls on is chord (t * n) \div w of the n chords
\* np.linspace lays over the sweep w
GapAt(w, t, n) ==
    IF w = 0 THEN I(0)
    ELSE GapOf(w, 2 * t * n - (2 * ((t * n) \div w) + 1) * w, n)

\* how far, as a fraction of the radius, the chord between the two samples
\* about the angle turned runs inside the circle the samples lie on; the
\* angles are counted in units of 1e-5 radian
ChordGap(buf, turned) ==
    GapAt(Scaled(RAbs(buf.sweep), 100000), Scaled(turned, 100000), buf.num_points - 1)

\* q < gap and q > gap for a fraction q of either sign and gap >= 0
BelowGap(q, gap) == q.n < 0 \/ FracLess(q.n, q.d, gap.n, gap.d)

AboveGap(q, gap) == q.n > 0 /\ FracLess(gap.n, gap.d, q.n, q.d)

\* the point lies beyond the chord of the inner samples and before the
\* chord of the outer samples; with inner radius 0 the inner samples are
\* all the centre
BetweenChords(buf, dist, gap) ==
    /\ IF IsZero(buf.inner) THEN RGt(dist, I(0))
       ELSE BelowGap(RDiv(RSub(buf.inner, dist), buf.inner), gap)
    /\ AboveGap(RDiv(RSub(buf.outer, dist), buf.outer), gap)

\* the direction np.linspace walks from angle1: the samples run from angle1
\* to angle1 - sweep on a clockwise arc and to angle1 + sweep otherwise, so
\* a negative sweep turns the ring the other way
RingClockwise(buf) == IF RLt(buf.sweep, I(0)) THEN ~buf.clockwise ELSE buf.clockwise

\* whether the ring, followed from its first samples for the angle along,
\* passes over a point at distance dist from the centre: along lies between
\* the two radial edges, and the point between the inner and the outer
\* chord of the samples along falls between
InTurn(buf, dist, along) ==
    /\ RGt(along, I(0))
    /\ RLt(along, RAbs(buf.sweep))
    /\ BetweenChords(buf, dist, ChordGap(buf, along))

\* the turns of the ring that pass over a point turned by the angle turned
\* from the start of the ring in the direction of its samples: a sweep of
\* more than a full circle winds the ring over itself
Windings(buf, dist, turned) ==
    { j \in 0..RFloor(RDiv(RAbs(buf.sweep), TwoPi)) :
          InTurn(buf, dist, RAdd(turned, RMul(I(j), TwoPi))) }

\* whether a point at distance dist from the centre, turned by the angle
\* turned from the start of the ring in the direction of its samples, lies
\* inside the polygon of the samples.  The polygon is one closed ring, and a
\* point is inside it when a ray from the point crosses the ring an odd
\* number of times, which is when an odd number of turns pass over it.  No
\* chord leaves the outer circle and none comes nearer to the centre than
\* the middle of a chord, so only points in that range are looked up on the
\* ring.
InSector(buf, dist, turned) ==
    /\ RLt(dist, buf.outer)
    /\ IsZero(buf.inner)
           \/ BelowGap(RDiv(RSub(buf.inner, dist), buf.inner),
                       GapOf(Scaled(RAbs(buf.sweep), 100000), 0, buf.num_points - 1))
    /\ Cardinality(Windings(buf, dist, turned)) % 2 = 1

BufferContains(buf, p) ==
    IF buf.kind = "rect"
    THEN \E s \in {1, -1} : SameSide(buf.pts, 1, p, s)
    ELSE IF ~IsFinite(buf.center.x) \/ ~IsFinite(buf.center.y) \/ ~IsFinite(buf.outer)
    THEN FALSE
    ELSE InSector(buf, distance_between_points(p, buf.center),
                  TurnedAngle(RingClockwise(buf), buf.angle1, NormAngle(p, buf.center)))

\* the projection of the point on the centreline of a segment, as the loop
\* of _isPointInBuffers computes it
ProjectOnSegment(segment, point) ==
    IF segment.segment_type = "circular"
    THEN closest_point_on_arc_to_given_point(segment.center, segment.radius, point)
    ELSE interpolate(segment.geometry, lineLocatePoint(segment.geometry, point)).pt

\* if offset < min_offset: the projection replaces the best so far
CloserSegment(segment, point, proj_point, offset, best) ==
    IF RLt(offset, best.min_offset)
    THEN [min_offset |-> offset, closest_segment |-> segment,
          closest_proj_point |-> proj_point]
    ELSE best

\* the body of the loop for a segment whose buffer holds the point
Projected(segment, point, proj_point, best) ==
    CloserSegment(segment, point, proj_point,
                  distance_between_points(proj_point, point), best)

\* the loop with a segment whose buffer is unset taken to hold every point
RECURSIVE ClosestContainingUnset(_, _, _, _)
ClosestContainingUnset(segments, k, point, best) ==
    IF k > Len(segments) THEN best
    ELSE ClosestContainingUnset(segments, k + 1, point,
             IF \/ segments[k].square_buffer = None
                \/ BufferContains(segments[k].square_buffer, point)
             THEN Projected(segments[k], point, ProjectOnSegment(segments[k], point), best)
             ELSE best)

\* the loop of _isPointInBuffers over segments k..: best is
\* [min_offset, closest_segment, closest_proj_point]
RECURSIVE ClosestContaining(_, _, _, _)
ClosestContaining(segments, k, point, best) ==
    IF k > Len(segments) THEN best
    ELSE ClosestContaining(segments, k + 1, point,
             IF /\ segments[k].square_buffer # None
                /\ BufferContains(segments[k].square_buffer, point)
             THEN Projected(segments[k], point, ProjectOnSegment(segments[k], point), best)
             ELSE best)

\* the search of _isPointInBuffers when the cache does not answer
SearchBuffers(segments, point) ==
    ClosestContaining(segments, 1, point,
        [min_offset |-> PosInf, closest_segment |-> None, closest_proj_point |-> None])

\* a cache that answers for any point within 10 map units of the last one
CacheHitWide(tool, point) ==
    /\ tool.last_point # None
    /\ RLt(RAbs(RSub(point.x, tool.last_point.x)), I(10))
    /\ RLt(RAbs(RSub(point.y, tool.last_point.y)), I(10))

\* whether _isPointInBuffers answers from its one-entry cache
CacheHit(tool, point) ==
    /\ tool.last_point # None
    /\ RLt(RAbs(RSub(point.x, tool.last_point.x)), [n |-> 1, d |-> 10000])
    /\ RLt(RAbs(RSub(point.y, tool.last_point.y)), [n |-> 1, d |-> 10000])

\* a search that empties the segment list when it finds no segment
SearchedForgetting(tool, point, r) ==
    [tool |-> [tool EXCEPT !.last_point = point,
                           !.last_containing_segment = r.closest_segment,
                           !.last_closest_point = r.closest_proj_point,
                           !.segments = IF r.closest_segment = None THEN <<>> ELSE @],
     containing_segment |-> r.closest_segment,
     closest_point |-> r.closest_proj_point]

\* the cache and the pair returned after a search that found r
Searched(tool, point, r) ==
    [tool |-> [tool EXCEPT !.last_point = point,
                           !.last_containing_segment = r.closest_segment,
                           !.last_closest_point = r.closest_proj_point],
     containing_segment |-> r.closest_segment,
     closest_point |-> r.closest_proj_point]

\* _isPointInBuffers: the tool after the call and the pair it returns
isPointInBuffers(tool, point) ==
    IF CacheHit(tool, point)
    THEN [tool |-> tool,
          containing_segment |-> tool.last_containing_segment,
          closest_point |-> tool.last_closest_point]
    ELSE Searched(tool, point, SearchBuffers(tool.segments, point))

\* station and side on an arc of the given curvature
ArcStationSide(containing_segment, closest_point, qPoint, curvature) ==
    [station |-> calculate_station_on_arc(
                     containing_segment.geometry[1],
                     containing_segment.geometry[Len(containing_segment.geometry)],
                     closest_point, containing_segment.center,
                     containing_segment.radius, curvature,
                     containing_segment.start_measure),
     offset |-> distance_between_points(closest_point, qPoint),
     side |-> determine_side_for_circular_string(
                  containing_segment.center, containing_segment.radius, qPoint,
                  curvature)]

\* station, offset and side of a point in the corridor of a segment: the
\* try block shared by canvasMoveEvent and canvasReleaseEvent
StationOffsetSide(containing_segment, closest_point, qPoint) ==
    IF containing_segment.segment_type = "circular"
    THEN ArcStationSide(containing_segment, closest_point, qPoint,
                        cached_curvature(containing_segment))
    ELSE [station |-> RAdd(containing_segment.start_measure,
                           lineLocatePoint(containing_segment.geometry, closest_point)),
          offset |-> distance_between_points(closest_point, qPoint),
          side |-> determineSide(qPoint, closest_point, containing_segment)]

----------------------------------------------------------------------------
(* Inverse lookup: AlignmentViewerPlugin                                   *)

\* what an inverse calculation gives: the value returned, whether an error
\* was raised instead, and the message boxes shown
Returned(ret) == [err |-> FALSE, ret |-> ret, messages |-> <<>>]

\* the point moved to the other side: to the right for left
ShiftedMirrored(point_on_line, offset, side, dx, dy) ==
    IF side = "left"
    THEN Pt(RAdd(point_on_line.x, RMul(dy, offset)),
            RAdd(point_on_line.y, RMul(RNeg(dx), offset)))
    ELSE Pt(RAdd(point_on_line.x, RMul(RNeg(dy), offset)),
            RAdd(point_on_line.y, RMul(dx, offset)))

\* the point moved by the offset along the perpendicular of the unit
\* direction (dx, dy), to its left or to its right
Shifted(point_on_line, offset, side, dx, dy) ==
    IF side = "left"
    THEN Pt(RAdd(point_on_line.x, RMul(RNeg(dy), offset)),
            RAdd(point_on_line.y, RMul(dx, offset)))
    ELSE Pt(RAdd(point_on_line.x, RMul(dy, offset)),
            RAdd(point_on_line.y, RMul(RNeg(dx), offset)))

\* the offset point for a line of the given direction and length
Perpendicular(point_on_line, offset, side, dx, dy, length) ==
    IF IsZero(length) THEN Returned(None)
    ELSE Returned(Shifted(point_on_line, offset, side, RDiv(dx, length), RDiv(dy, length)))

\* _calculatePointOnLineSegment after line.interpolate(distance_along).asPoint()
\* gave ip
OffsetFromLine(line, offset, side, ip) ==
    IF ip.err THEN [err |-> TRUE, ret |-> None, messages |-> <<>>]
    ELSE IF RLt(RAbs(offset), [n |-> 1, d |-> 1000]) THEN Returned(ip.pt)
    ELSE IF Len(line) < 2 THEN Returned(None)
    ELSE Perpendicular(ip.pt, offset, side,
                       RSub(line[Len(line)].x, line[1].x),
                       RSub(line[Len(line)].y, line[1].y),
                       Hypot(RSub(line[Len(line)].x, line[1].x),
                             RSub(line[Len(line)].y, line[1].y)))

\* _calculatePointOnLineSegment; ret is the point returned, or None
calculatePointOnLineSegment(segment, station, offset, side) ==
    OffsetFromLine(segment.geometry, offset, side,
                   interpolate(segment.geometry, RSub(station, segment.start_measure)))

\* the point center + rho * (cos angle, sin angle)
Polar(center, rho, angle) == [center |-> center, rho |-> rho, angle |-> angle]

\* the offset applied along the radius at angle_at_station
RadialPoint(segment, offset, side, is_clockwise, angle_at_station) ==
    IF RLt(RAbs(offset), [n |-> 1, d |-> 1000])
    THEN Returned(Polar(segment.center, segment.radius, angle_at_station))
    ELSE IF /\ (side = "right" /\ is_clockwise) \/ (side = "left" /\ ~is_clockwise)
            /\ RGe(offset, segment.radius)
    THEN [err |-> FALSE, ret |-> None,
          messages |-> << [title |-> "Invalid Offset", side |-> side,
                           maximum |-> segment.radius] >>]
    ELSE IF (side = "left" /\ is_clockwise) \/ (side = "right" /\ ~is_clockwise)
    THEN Returned(Polar(segment.center, RAdd(segment.radius, offset), angle_at_station))
    ELSE Returned(Polar(segment.center, RSub(segment.radius, offset), angle_at_station))

\* the angle at the station for an arc of the given direction
ArcPoint(segment, station, offset, side, is_clockwise, angle_start, turned) ==
    RadialPoint(segment, offset, side, is_clockwise,
                IF is_clockwise THEN RSub(angle_start, turned)
                ELSE RAdd(angle_start, turned))

\* _calculatePointOnCircularSegment; the point is kept in polar form about
\* the centre of the arc: the code moves the point at angle_at_station on
\* the circle along the radius by the offset
calculatePointOnCircularSegment(segment, station, offset, side) ==
    IF segment.center = None \/ segment.radius = None \/ ~Truthy(segment.radius)
    THEN Returned(None)
    ELSE ArcPoint(segment, station, offset, side,
                  RGt(cached_curvature(segment), I(0)),
                  AngleAbout(segment.geometry[1], segment.center),
                  RDiv(RSub(station, segment.start_measure), segment.radius))

\* the search with both ends of the measure range left out
RECURSIVE FindContainingStrict(_, _, _)
FindContainingStrict(segments, k, station) ==
    IF k > Len(segments) THEN None
    ELSE IF RLt(segments[k].start_measure, station) /\ RLt(station, segments[k].end_measure)
    THEN segments[k]
    ELSE FindContainingStrict(segments, k + 1, station)

\* for segment in temp_map_tool.segments: the first segment whose measure
\* range holds the station, or None
RECURSIVE FindContaining(_, _, _)
FindContaining(segments, k, station) ==
    IF k > Len(segments) THEN None
    ELSE IF RLe(segments[k].start_measure, station) /\ RLe(station, segments[k].end_measure)
    THEN segments[k]
    ELSE FindContaining(segments, k + 1, station)

\* except Exception: return None
Caught(r, containing_segment) ==
    [ret |-> IF r.err THEN None ELSE r.ret,
     messages |-> r.messages,
     segment |-> containing_segment]

\* the branch of _calculatePointFromStationOffset on the type of the
\* segment found; an error raised on the way is caught and None returned
PointOnSegment(containing_segment, station, offset, side) ==
    IF containing_segment = None
    THEN [ret |-> None, messages |-> <<>>, segment |-> None]
    ELSE Caught(IF containing_segment.segment_type = "circular"
                THEN calculatePointOnCircularSegment(containing_segment, station,
                                                     offset, side)
                ELSE calculatePointOnLineSegment(containing_segment, station,
                                                 offset, side),
                containing_segment)

\* _calculatePointFromStationOffset: ret is the value returned to the
\* caller, messages the message boxes shown on the way and segment the
\* segment the station was found in.  The segments are those of a map tool
\* made for the call, with a corridor of width 0.
calculatePointFromStationOffset(alignmentGeom, startMeasure, station, offset, side) ==
    IF alignmentGeom = None THEN [ret |-> None, messages |-> <<>>, segment |-> None]
    ELSE PointOnSegment(
             FindContaining(parseAlignmentSegments(<<>>, alignmentGeom, startMeasure, I(0)),
                            1, station),
             station, offset, side)

----------------------------------------------------------------------------
(* Inputs                                                                  *)

V(x, y, m) == [x |-> I(x), y |-> I(y), m |-> I(m)]

Line(pts) == [type |-> "line", pts |-> pts]

Circular(pts) == [type |-> "circular", pts |-> pts]

\* the component shapes the curves of the model are built from
ShapeCatalogue ==
    << Line(<< V(0, 0, 0), V(10, 0, 10) >>),
       Line(<< V(10, 0, 10), V(10, 4, 14), V(13, 8, 19) >>),
       Circular(<< V(10, 0, 10), V(15, 5, 18), V(20, 0, 26) >>),
       Circular(<< V(20, 0, 26), V(25, 5, 34), V(30, 0, 42),
                   V(35, -5, 50), V(40, 0, 57) >>),
       Circular(<< V(5, 0, 0), V(4, 3, 3), V(0, 5, 8) >>),
       Circular(<< V(0, 0, 0), V(1, 1, 1), V(2, 2, 2) >>),
       Circular(<< V(0, 0, 0), V(1, 0, 1), V(2, 0, 2) >>),
       Circular(<< V(0, 0, 0), V(0, 1, 1), V(0, 2, 2) >>),
       Line(<< V(3, 3, 7), V(3, 3, 7) >>),
       Circular(<< V(0, 0, 0), V(5, 5, 8), V(10, 0, 16), V(11, 1, 17), V(12, 2, 18) >>),
       Circular(<< V(0, 0, 0), V(5, 5, 8), V(10, 0, 16), V(15, -5, 24) >>),
       Line(<< V(0, 0, 0), V(0, 6, 12) >>) >>

\* longest compound curve, in component shapes
MaxShapes == 2

CompoundCurve(shapes) == [compound |-> TRUE, shapes |-> shapes]

SingleCurve(shape) == [compound |-> FALSE, shapes |-> << shape >>]

\* the curves decomposition is checked on: every shape alone, and every
\* compound curve of up to MaxShapes shapes
Curves ==
    { SingleCurve(ShapeCatalogue[k]) : k \in 1..Len(ShapeCatalogue) }
    \cup
    UNION { { CompoundCurve([j \in 1..n |-> ShapeCatalogue[f[j]]]) :
                f \in [1..n -> 1..Len(ShapeCatalogue)] } : n \in 1..MaxShapes }

StartMeasures == { I(0), I(100) }

BufferDistances == { I(2), I(6) }

Alignment(name, geom, startMeasure, bufferDistance) ==
    [name |-> name, geom |-> geom, startMeasure |-> startMeasure,
     bufferDistance |-> bufferDistance]

\* the alignments the user adds in the interactive specification, by the
\* number of alignments already added: a line; a line followed by a line of
\* no length, or a line of no length followed by a clockwise arc of radius
\* 3 with a corridor of 6 to either side; a bent line
ToolAlignments ==
    << { Alignment("A", SingleCurve(ShapeCatalogue[1]), I(0), I(2)) },
       { Alignment("B", CompoundCurve(<< ShapeCatalogue[12], ShapeCatalogue[9] >>), I(0), I(2)),
         Alignment("C", CompoundCurve(<< ShapeCatalogue[9],
                                         Circular(<< V(12, 0, 7), V(15, 3, 11), V(18, 0, 16) >>) >>),
                   I(0), I(6)) },
       { Alignment("D", SingleCurve(ShapeCatalogue[2]), I(10), I(2)) } >>

\* most alignments added
MaxAlignments == 2

\* most features held by the point layer
MaxPoints == 1

\* map points the pointer is moved to and released at: one in the corridor
\* of A, one in the corridor of the line of B, one in the ring of the arc
\* of C
QueryPoints == { IPt(5, 1), IPt(1, 5), IPt(15, 6) }

\* map points the left button is pressed at
PressPoints == { IPt(5, 1) }

\* how far one move event takes the pointer while the button is held
DragSteps == { IPt(0, -2), IPt(0, -5) }

\* farthest the pointer is dragged from where it was pressed, per axis
MaxTravel == 5

----------------------------------------------------------------------------
(* State                                                                   *)

VARIABLES
    alignments,             \* AlignmentViewerPlugin.alignments
    currentAlignmentIndex,  \* AlignmentViewerPlugin.currentAlignmentIndex, 0-based
    monitorChecked,         \* monitorButton.isChecked()
    mapTool,                \* AlignmentViewerPlugin.mapTool: the AlignmentMapTool, or None
    canvasTool,             \* canvas.mapTool(): the tool canvas.setMapTool installed last
    pointLayer,             \* AlignmentViewerPlugin.pointLayer and its features
    dockWidget,             \* AlignmentViewerPlugin.dockWidget: the panel, or None
    travel,                 \* how far the pointer was dragged from where it was pressed
    last                    \* the handler that ran last, its input and what it gave

vars == << alignments, currentAlignmentIndex, monitorChecked, mapTool, canvasTool,
           pointLayer, dockWidget, travel, last >>

\* AlignmentMapTool.__init__
AlignmentMapTool(alignmentGeom, startMeasure, alignmentName, bufferDistance) ==
    [alignmentGeom |-> alignmentGeom,
     startMeasure |-> startMeasure,
     alignmentName |-> alignmentName,
     dragging |-> FALSE,
     dragged |-> FALSE,
     lastPoint |-> None,
     segments |-> <<>>,
     bufferDistance |-> bufferDistance,
     last_point |-> None,
     last_containing_segment |-> None,
     last_closest_point |-> None]

\* setAlignment without self.segments = []: the new decomposition is
\* appended to the old one
setAlignmentAppending(tool, alignmentGeom, startMeasure, alignmentName, bufferDistance) ==
    [tool EXCEPT !.alignmentGeom = alignmentGeom,
                 !.startMeasure = startMeasure,
                 !.alignmentName = alignmentName,
                 !.bufferDistance = bufferDistance,
                 !.segments = parseAlignmentSegments(tool.segments, alignmentGeom,
                                                     startMeasure, bufferDistance)]

\* AlignmentMapTool.setAlignment
setAlignment(tool, alignmentGeom, startMeasure, alignmentName, bufferDistance) ==
    [tool EXCEPT !.alignmentGeom = alignmentGeom,
                 !.startMeasure = startMeasure,
                 !.alignmentName = alignmentName,
                 !.bufferDistance = bufferDistance,
                 !.segments = parseAlignmentSegments(<<>>, alignmentGeom, startMeasure,
                                                     bufferDistance)]

\* createDockWidget: the panel whose buttons and combo box run the handlers
QDockWidget == [objectName |-> "AlignmentViewerDock"]

\* AlignmentViewerPlugin.__init__ followed by initGui, as QGIS loads a plugin
Init ==
    /\ alignments = <<>>
    /\ currentAlignmentIndex = -1
    /\ monitorChecked = FALSE
    /\ mapTool = None
    /\ canvasTool = None
    /\ pointLayer = [exists |-> FALSE, features |-> <<>>]
    /\ dockWidget = QDockWidget
    /\ travel = IPt(0, 0)
    /\ last = [handler |-> "init"]

\* the map tool after onAlignmentSelectionChanged(index) for a valid index
ToolAfterSelection(index, list) ==
    IF monitorChecked /\ mapTool # None
    THEN setAlignment(mapTool, list[index + 1].geom, list[index + 1].startMeasure,
                      list[index + 1].name, list[index + 1].bufferDistance)
    ELSE mapTool

\* the tool on the canvas after the plugin wrote to its own: while the
\* plugin holds a tool it is the object the canvas holds, and a tool the
\* plugin has dropped stays on the canvas as it was
OnCanvas(tool) == IF tool = None THEN canvasTool ELSE tool

\* addAlignment with inputs that pass its checks: the layers are created,
\* the alignment is appended and selected in the combo box, whose
\* currentIndexChanged runs onAlignmentSelectionChanged
addAlignment(a) ==
    /\ dockWidget # None
    /\ Len(alignments) < MaxAlignments
    /\ alignments' = Append(alignments, a)
    /\ pointLayer' = [pointLayer EXCEPT !.exists = TRUE]
    /\ currentAlignmentIndex' = Len(alignments)
    /\ mapTool' = ToolAfterSelection(Len(alignments), alignments')
    /\ canvasTool' = OnCanvas(mapTool')
    /\ last' = [handler |-> "addAlignment"]
    /\ travel' = IPt(0, 0)
    /\ UNCHANGED << monitorChecked, dockWidget >>

\* onAlignmentSelectionChanged, run by the combo box when the user picks
\* another entry
onAlignmentSelectionChanged(index) ==
    /\ dockWidget # None
    /\ index # currentAlignmentIndex
    /\ 0 <= index /\ index < Len(alignments)
    /\ currentAlignmentIndex' = index
    /\ mapTool' = ToolAfterSelection(index, alignments)
    /\ canvasTool' = OnCanvas(mapTool')
    /\ last' = [handler |-> "onAlignmentSelectionChanged"]
    /\ travel' = IPt(0, 0)
    /\ UNCHANGED << alignments, monitorChecked, pointLayer, dockWidget >>

\* toggleMonitoring, run by the toggled signal of the monitor button.  To
\* start, the new tool is connected to the slots of the panel and installed
\* with canvas.setMapTool; to stop, the three signals are disconnected and
\* self.mapTool set to None, and no call takes the tool off the canvas.
toggleMonitoring(toggled) ==
    /\ dockWidget # None
    /\ toggled = ~monitorChecked
    /\ IF toggled
       THEN IF currentAlignmentIndex < 0 \/ currentAlignmentIndex >= Len(alignments)
            THEN UNCHANGED << monitorChecked, mapTool, canvasTool >>
            ELSE LET a == alignments[currentAlignmentIndex + 1]
                     tool == AlignmentMapTool(a.geom, a.startMeasure, a.name, a.bufferDistance)
                 IN  /\ mapTool' = [tool EXCEPT !.segments =
                                        parseAlignmentSegments(tool.segments, a.geom,
                                                               a.startMeasure, a.bufferDistance)]
                     /\ canvasTool' = mapTool'
                     /\ monitorChecked' = TRUE
       ELSE /\ mapTool' = None
            /\ canvasTool' = canvasTool
            /\ monitorChecked' = FALSE
    /\ last' = [handler |-> "toggleMonitoring"]
    /\ travel' = IPt(0, 0)
    /\ UNCHANGED << alignments, currentAlignmentIndex, pointLayer, dockWidget >>

\* clearAllAlignments without the unchecking of the monitor button: the map
\* tool stays
clearAllAlignmentsKeepingTool ==
    /\ dockWidget # None
    /\ alignments' = <<>>
    /\ currentAlignmentIndex' = -1
    /\ pointLayer' = [pointLayer EXCEPT !.features = <<>>]
    /\ last' = [handler |-> "clearAllAlignments"]
    /\ travel' = IPt(0, 0)
    /\ UNCHANGED << monitorChecked, mapTool, canvasTool, dockWidget >>

\* clearAllAlignments
clearAllAlignments ==
    /\ dockWidget # None
    /\ alignments' = <<>>
    /\ currentAlignmentIndex' = -1
    /\ pointLayer' = [pointLayer EXCEPT !.features = <<>>]
    /\ monitorChecked' = FALSE
    /\ mapTool' = None
    /\ last' = [handler |-> "clearAllAlignments"]
    /\ travel' = IPt(0, 0)
    /\ UNCHANGED << canvasTool, dockWidget >>

\* unload, run by QGIS when the plugin is removed: monitoring is stopped,
\* the panel deleted, the alignments dropped and the three layers taken out
\* of the project.  With the panel gone none of its handlers runs again;
\* the tool, disconnected, is left on the canvas.
unload ==
    /\ dockWidget # None
    /\ monitorChecked' = FALSE
    /\ mapTool' = None
    /\ dockWidget' = None
    /\ alignments' = <<>>
    /\ currentAlignmentIndex' = -1
    /\ pointLayer' = [exists |-> FALSE, features |-> <<>>]
    /\ last' = [handler |-> "unload"]
    /\ travel' = IPt(0, 0)
    /\ UNCHANGED canvasTool

\* createPointAtLocation: the slot of createPoint, also called by createPointDialog
createPointAtLocation(layer, point, station, offset, side, alignmentName, startMeasure) ==
    IF layer.exists
    THEN [layer EXCEPT !.features =
              Append(@, [point |-> point, station |-> station, offset |-> offset,
                         side |-> side, alignment |-> alignmentName,
                         start_measure |-> startMeasure])]
    ELSE layer

\* the plugin's tool after an event handled by the tool on the canvas: the
\* same object while the plugin holds it
Held(tool) == IF mapTool = None THEN None ELSE tool

\* the signals that reach updateMonitorPanel, handleOutOfBounds and
\* createPointAtLocation: those of a tool toggleMonitoring connected and
\* has not disconnected, which is the tool the plugin holds
Received(signals) == IF mapTool = None THEN <<>> ELSE signals

\* canvasPressEvent with the left button at map point p, on the tool the
\* canvas holds
canvasPressEvent(p) ==
    /\ canvasTool # None
    /\ canvasTool' = [canvasTool EXCEPT !.dragging = TRUE, !.dragged = FALSE, !.lastPoint = p]
    /\ mapTool' = Held(canvasTool')
    /\ travel' = IPt(0, 0)
    /\ last' = [handler |-> "canvasPressEvent", point |-> p, queried |-> FALSE,
                signals |-> <<>>, received |-> <<>>]
    /\ UNCHANGED << alignments, currentAlignmentIndex, monitorChecked, pointLayer,
                    dockWidget >>

\* what an event does with the answer q of _isPointInBuffers
Answered(qPoint, hit, q) ==
    [tool |-> q.tool,
     hit |-> hit,
     containing_segment |-> q.containing_segment,
     closest_point |-> q.closest_point,
     sos |-> IF q.containing_segment = None THEN None
             ELSE StationOffsetSide(q.containing_segment, q.closest_point, qPoint)]

\* the query both canvasMoveEvent and canvasReleaseEvent make at qPoint:
\* the tool after _isPointInBuffers, what it returned, and the values the
\* event would emit
Query(tool, qPoint) == Answered(qPoint, CacheHit(tool, qPoint), isPointInBuffers(tool, qPoint))

\* the signal canvasMoveEvent emits for the answer q: outOfBounds when no
\* segment holds the point and when the try block raised, else updateInfo
MoveSignals(q, raises) ==
    IF q.containing_segment = None \/ raises
    THEN << [signal |-> "outOfBounds"] >>
    ELSE << [signal |-> "updateInfo", station |-> q.sos.station,
             offset |-> q.sos.offset, side |-> q.sos.side] >>

\* the signal canvasReleaseEvent emits for the answer q: createPoint, and
\* none when no segment holds the point or the try block raised
ReleaseSignals(tool, p, q, raises) ==
    IF q.containing_segment = None \/ raises
    THEN <<>>
    ELSE << [signal |-> "createPoint", point |-> p, station |-> q.sos.station,
             offset |-> q.sos.offset, side |-> q.sos.side,
             alignment |-> tool.alignmentName, start_measure |-> tool.startMeasure] >>

\* canvasMoveEvent with the pointer over map point p, on the tool the canvas
\* holds; raises tells whether a call made in the try block throws.  While
\* the button is held the event pans the canvas by lastPoint - p, which puts
\* the map point lastPoint under the pointer again, so the lastPoint read
\* back after the pan is the one before it.
canvasMoveEvent(p, raises) ==
    /\ canvasTool # None
    /\ IF canvasTool.dragging
       THEN LET dx == RSub(canvasTool.lastPoint.x, p.x)
                dy == RSub(canvasTool.lastPoint.y, p.y)
                moved == Pt(RSub(travel.x, dx), RSub(travel.y, dy))
            IN  /\ RLe(RAbs(moved.x), I(MaxTravel))
                /\ RLe(RAbs(moved.y), I(MaxTravel))
                /\ canvasTool' = [canvasTool EXCEPT !.dragged =
                                      @ \/ RGt(RAbs(dx), I(3)) \/ RGt(RAbs(dy), I(3))]
                /\ travel' = moved
                /\ last' = [handler |-> "canvasMoveEvent", point |-> p, queried |-> FALSE,
                            signals |-> <<>>, received |-> <<>>]
       ELSE \E q \in { Query(canvasTool, p) } :
                /\ canvasTool' = q.tool
                /\ travel' = IPt(0, 0)
                /\ last' = [handler |-> "canvasMoveEvent", point |-> p, queried |-> TRUE,
                            hit |-> q.hit,
                            containing_segment |-> q.containing_segment,
                            closest_point |-> q.closest_point,
                            raised |-> raises /\ q.containing_segment # None,
                            signals |-> MoveSignals(q, raises),
                            received |-> Received(MoveSignals(q, raises))]
    /\ mapTool' = Held(canvasTool')
    /\ UNCHANGED << alignments, currentAlignmentIndex, monitorChecked, pointLayer,
                    dockWidget >>

\* canvasReleaseEvent with the left button at map point p, on the tool the
\* canvas holds; raises tells whether a call made in the try block throws.
\* The handler reads dragged only: a release that no press of this tool
\* preceded, such as the second release of a double click, is a click as
\* well.  createPoint runs createPointAtLocation only while it is connected.
canvasReleaseEvent(p, raises) ==
    /\ canvasTool # None
    /\ IF canvasTool.dragged
       THEN /\ canvasTool' = [canvasTool EXCEPT !.dragging = FALSE, !.dragged = FALSE]
            /\ pointLayer' = pointLayer
            /\ last' = [handler |-> "canvasReleaseEvent", point |-> p,
                        queried |-> FALSE, signals |-> <<>>, received |-> <<>>]
       ELSE \E q \in { Query(canvasTool, p) } :
            \E received \in { Received(ReleaseSignals(canvasTool, p, q, raises)) } :
            /\ received # <<>> /\ pointLayer.exists
                => Len(pointLayer.features) < MaxPoints
            /\ canvasTool' = [q.tool EXCEPT !.dragging = FALSE, !.dragged = FALSE]
            /\ pointLayer' = IF received = <<>> THEN pointLayer
                             ELSE createPointAtLocation(pointLayer, p, q.sos.station,
                                      q.sos.offset, q.sos.side, canvasTool.alignmentName,
                                      canvasTool.startMeasure)
            /\ last' = [handler |-> "canvasReleaseEvent", point |-> p, queried |-> TRUE,
                        hit |-> q.hit,
                        containing_segment |-> q.containing_segment,
                        closest_point |-> q.closest_point,
                        raised |-> raises /\ q.containing_segment # None,
                        signals |-> ReleaseSignals(canvasTool, p, q, raises),
                        received |-> received]
    /\ mapTool' = Held(canvasTool')
    /\ travel' = IF canvasTool.dragging THEN travel ELSE IPt(0, 0)
    /\ UNCHANGED << alignments, currentAlignmentIndex, monitorChecked, dockWidget >>

\* createPointDialog with the dialog accepted and its fields numeric
createPointDialog(station, offset, side) ==
    /\ dockWidget # None
    /\ 0 <= currentAlignmentIndex /\ currentAlignmentIndex < Len(alignments)
    /\ Len(pointLayer.features) < MaxPoints
    /\ \E a \in { alignments[currentAlignmentIndex + 1] } :
       \E r \in { calculatePointFromStationOffset(a.geom, a.startMeasure, station,
                                                  offset, side) } :
           /\ pointLayer' = IF r.ret = None THEN pointLayer
                            ELSE createPointAtLocation(pointLayer, r.ret, station, offset,
                                                       side, a.name, a.startMeasure)
           /\ last' = [handler |-> "createPointDialog", station |-> station,
                       offset |-> offset, side |-> side,
                       ret |-> r.ret, segment |-> r.segment,
                       messages |-> IF r.ret = None
                                    THEN Append(r.messages, [title |-> "Calculation Error"])
                                    ELSE r.messages]
    /\ travel' = IPt(0, 0)
    /\ UNCHANGED << alignments, currentAlignmentIndex, monitorChecked, mapTool,
                    canvasTool, dockWidget >>

----------------------------------------------------------------------------
(* Specifications                                                          *)

\* map points a move event can report: anywhere while the button is up, one
\* drag step from the last point while it is held
MoveTargets(points) ==
    IF canvasTool # None /\ canvasTool.dragging
    THEN { Pt(RAdd(canvasTool.lastPoint.x, d.x), RAdd(canvasTool.lastPoint.y, d.y)) :
               d \in DragSteps }
    ELSE points

\* the alignments the user can add next
NewAlignments ==
    IF Len(alignments) < Len(ToolAlignments) THEN ToolAlignments[Len(alignments) + 1]
    ELSE {}

\* what the user enters in the station/offset dialog of the panel
DialogStations == { I(5), I(50) }

DialogOffsets == { I(1) }

Sides == { "left", "right" }

\* the plugin from its loading to its unloading, driven by the panel and the
\* pointer
Next ==
    \/ \E a \in NewAlignments : addAlignment(a)
    \/ \E index \in 0..(MaxAlignments - 1) : onAlignmentSelectionChanged(index)
    \/ \E toggled \in BOOLEAN : toggleMonitoring(toggled)
    \/ clearAllAlignments
    \/ \E p \in PressPoints : canvasPressEvent(p)
    \/ \E p \in MoveTargets(QueryPoints), raises \in BOOLEAN : canvasMoveEvent(p, raises)
    \/ \E p \in QueryPoints, raises \in BOOLEAN : canvasReleaseEvent(p, raises)
    \/ \E station \in DialogStations, offset \in DialogOffsets, side \in Sides :
           createPointDialog(station, offset, side)
    \/ unload

Spec == Init /\ [][Next]_vars

\* the alignment every curve is decomposed next to
FirstAlignment == Alignment("A", SingleCurve(ShapeCatalogue[1]), I(0), I(2))

\* decomposition: the plugin after two alignments were added, the second
\* with any of the curves, start measures and corridor widths; monitoring is
\* started and stopped and the selection changed
InitParse ==
    /\ \E c \in Curves, m \in StartMeasures, w \in BufferDistances :
           alignments = << FirstAlignment, Alignment("R", c, m, w) >>
    /\ currentAlignmentIndex = 1
    /\ monitorChecked = FALSE
    /\ mapTool = None
    /\ canvasTool = None
    /\ pointLayer = [exists |-> TRUE, features |-> <<>>]
    /\ dockWidget = QDockWidget
    /\ travel = IPt(0, 0)
    /\ last = [handler |-> "addAlignment"]

NextParse ==
    \/ \E index \in 0..1 : onAlignmentSelectionChanged(index)
    \/ \E toggled \in BOOLEAN : toggleMonitoring(toggled)

SpecParse == InitParse /\ [][NextParse]_vars

\* the curves the forward lookup is checked on, each with the map points
\* the pointer is pressed, moved and released at.  With the start measure
\* 100 the arc of the first curve keeps its geometric sweep, the arc of the
\* second, from measure 12 to measure 8, has the sweep -4/5, the arc of the
\* third, from measure 100 to measure 26, the sweep -74/5, whose ring winds
\* over itself, and the fourth is a counterclockwise arc on its own.
ForwardCases ==
    { [curve |-> CompoundCurve(<< ShapeCatalogue[1], ShapeCatalogue[3] >>),
       points |-> { IPt(8, 1), IPt(15, 6), IPt(18, 4), IPt(-1, 2) }],
      [curve |-> CompoundCurve(<< ShapeCatalogue[12], ShapeCatalogue[5] >>),
       points |-> { IPt(-1, 2), IPt(4, -3), IPt(4, 3) }],
      [curve |-> CompoundCurve(<< ShapeCatalogue[3] >>),
       points |-> { IPt(11, -3), IPt(12, -4), IPt(15, 6) }],
      [curve |-> SingleCurve(ShapeCatalogue[5]),
       points |-> { Pt(Norm(18, 5), Norm(24, 5)), IPt(4, -3), IPt(8, 1) }] }

ForwardCurves == { c.curve : c \in ForwardCases }

\* map points the pointer is pressed or moved to in the forward lookup
ForwardPoints ==
    UNION { c.points : c \in { d \in ForwardCases : d.curve = alignments[1].geom } }

\* forward lookup: the plugin after one alignment was added, with start
\* measure 100; monitoring is started and stopped and the pointer moved,
\* pressed, dragged and released, the selection staying as it is
InitForward ==
    /\ \E c \in ForwardCurves :
           alignments = << Alignment("R", c, I(100), I(2)) >>
    /\ currentAlignmentIndex = 0
    /\ monitorChecked = FALSE
    /\ mapTool = None
    /\ canvasTool = None
    /\ pointLayer = [exists |-> TRUE, features |-> <<>>]
    /\ dockWidget = QDockWidget
    /\ travel = IPt(0, 0)
    /\ last = [handler |-> "addAlignment"]

NextForward ==
    \/ \E toggled \in BOOLEAN : toggleMonitoring(toggled)
    \/ \E p \in ForwardPoints : canvasPressEvent(p)
    \/ \E p \in MoveTargets(ForwardPoints), raises \in BOOLEAN : canvasMoveEvent(p, raises)
    \/ \E p \in ForwardPoints, raises \in BOOLEAN : canvasReleaseEvent(p, raises)

SpecForward == InitForward /\ [][NextForward]_vars

\* the curves the inverse lookup is checked on; the chords of their lines
\* have rational lengths, so that the unit vector an offset is applied
\* along is exact
InverseCurves ==
    { SingleCurve(ShapeCatalogue[k]) : k \in { 1, 3, 5, 9 } }
    \cup
    { SingleCurve(Line(<< V(0, 0, 0), V(4, 0, 4), V(4, 3, 7) >>)),
      CompoundCurve(<< ShapeCatalogue[1], ShapeCatalogue[3], ShapeCatalogue[4] >>),
      CompoundCurve(<< ShapeCatalogue[12], ShapeCatalogue[5] >>),
      CompoundCurve(<< ShapeCatalogue[6], ShapeCatalogue[1] >>) }

\* the stations entered: before, at, within and beyond the measures of the
\* curves, and two at which the radius of an arc of radius 5 that starts at
\* measure 10 or 100 has turned by the angle of the direction (4, 3)
Stations == { I(-1), I(0), I(5), I(12), I(50), I(105), Norm(661, 50), Norm(5161, 50) }

Offsets == { I(0), I(1), I(3), I(5) }

\* inverse lookup: the plugin after one alignment was added, and points
\* entered in the station/offset dialog
InitInverse ==
    /\ \E c \in InverseCurves, m \in StartMeasures :
           alignments = << Alignment("R", c, m, I(2)) >>
    /\ currentAlignmentIndex = 0
    /\ monitorChecked = FALSE
    /\ mapTool = None
    /\ canvasTool = None
    /\ pointLayer = [exists |-> TRUE, features |-> <<>>]
    /\ dockWidget = QDockWidget
    /\ travel = IPt(0, 0)
    /\ last = [handler |-> "addAlignment"]

NextInverse ==
    \E station \in Stations, offset \in Offsets, side \in Sides :
        createPointDialog(station, offset, side)

SpecInverse == InitInverse /\ [][NextInverse]_vars

\* the alignments the corridors of lines are checked on: the line of 1000
\* units with a corridor of 500, a line of three vertices as the single
\* shape and as the component of a compound curve, a line heading north,
\* a line of length 4 whose measures run from 0 to 2, and a line under the
\* arc that follows it, whose corridors overlap
CorridorAlignments ==
    { Alignment("S", SingleCurve(Line(<< V(0, 0, 0), V(1000, 0, 1000) >>)), I(0), I(500)),
      Alignment("L", SingleCurve(Line(<< V(0, 0, 0), V(4, 0, 4), V(4, 3, 7) >>)), I(0), I(2)),
      Alignment("P", CompoundCurve(<< Line(<< V(0, 0, 0), V(4, 0, 4), V(4, 3, 7) >>) >>),
                I(0), I(2)),
      Alignment("N", SingleCurve(ShapeCatalogue[12]), I(0), I(2)),
      Alignment("M", CompoundCurve(<< Line(<< V(0, 0, 0), V(4, 0, 2) >>) >>), I(0), I(2)),
      Alignment("X", CompoundCurve(<< Line(<< V(12, 3, 4), V(18, 3, 10) >>),
                                      ShapeCatalogue[3] >>), I(0), I(2)) }

\* map points the pointer is moved to over the corridors of lines: points
\* about the short lines, two of them where the corridors of the two pieces
\* of the bent line overlap, and over the line of 1000 units also the
\* points 100 units to either side of its middle; over the line and the arc
\* a point the line alone holds and three that both hold, nearer to the
\* line, as near to both, and nearer to the arc
CorridorPoints ==
    IF alignments[1].name = "X"
    THEN { IPt(13, 2), Pt(I(15), Norm(7, 2)), IPt(15, 4), Pt(I(15), Norm(9, 2)) }
    ELSE { IPt(2, 1), IPt(3, 2), IPt(3, -1), IPt(2, 0), IPt(1, 3), IPt(1, -1),
           IPt(3, 1), Pt(Norm(7, 2), I(1)) }
         \cup
         (IF alignments[1].name = "S" THEN { IPt(500, 100), IPt(500, -100) } ELSE {})

\* corridors of lines: the plugin after one of these alignments was added,
\* with any of the start measures; monitoring is started and stopped and the
\* pointer moved with no button held
InitCorridor ==
    /\ \E a \in CorridorAlignments, m \in StartMeasures :
           alignments = << [a EXCEPT !.startMeasure = m] >>
    /\ currentAlignmentIndex = 0
    /\ monitorChecked = FALSE
    /\ mapTool = None
    /\ canvasTool = None
    /\ pointLayer = [exists |-> TRUE, features |-> <<>>]
    /\ dockWidget = QDockWidget
    /\ travel = IPt(0, 0)
    /\ last = [handler |-> "addAlignment"]

NextCorridor ==
    \/ \E toggled \in BOOLEAN : toggleMonitoring(toggled)
    \/ \E p \in CorridorPoints, raises \in BOOLEAN : canvasMoveEvent(p, raises)

SpecCorridor == InitCorridor /\ [][NextCorridor]_vars

----------------------------------------------------------------------------
(* Decomposition: measures                                                 *)

\* the alignment the tool shows
CurrentAlignment == alignments[currentAlignmentIndex + 1]

\* a component of the curve is a three-point circular shape that raises in
\* the segment constructor
SkipsAShape(geom) ==
    \E k \in 1..Len(geom.shapes) :
        /\ geom.shapes[k].type = "circular"
        /\ Len(geom.shapes[k].pts) = 3
        /\ AlignmentSegment(Polyline(geom.shapes[k].pts), I(0), I(1), "circular", I(2)).err

\* C1: after an alignment is decomposed into one or more segments, the first
\* segment starts at the alignment's start measure and every segment starts
\* at the measure the segment before it ends at, also when shapes of the
\* curve were skipped after an error.
C1_MeasureContiguity ==
    mapTool # None /\ Len(mapTool.segments) >= 1 =>
        /\ mapTool.segments[1].start_measure = mapTool.startMeasure
        /\ \A i \in 1..(Len(mapTool.segments) - 1) :
               mapTool.segments[i].end_measure = mapTool.segments[i + 1].start_measure

\* a compound curve decomposed into two segments or more, one of whose
\* shapes was skipped
C1_Witness ==
    /\ mapTool # None
    /\ Len(mapTool.segments) >= 2
    /\ mapTool.alignmentGeom.compound
    /\ SkipsAShape(mapTool.alignmentGeom)

\* C2: every segment of a decomposition ends at a greater measure than it
\* starts at, for every curve and every start measure the user gives.
C2_EndAfterStart ==
    mapTool # None =>
        \A i \in 1..Len(mapTool.segments) :
            RGt(mapTool.segments[i].end_measure, mapTool.segments[i].start_measure)

----------------------------------------------------------------------------
(* Forward lookup: the projection cache                                    *)

\* the last handler was a move or a release that called _isPointInBuffers
Queried ==
    /\ last.handler \in { "canvasMoveEvent", "canvasReleaseEvent" }
    /\ last.queried

\* C3: once setAlignment has replaced the tool's alignment, a query of
\* _isPointInBuffers, also one at the point queried last before the change,
\* returns a segment of the tool's current segment list or no segment.
C3_CacheInvalidated ==
    Queried =>
        \/ last.containing_segment = None
        \/ \E i \in 1..Len(canvasTool.segments) :
               canvasTool.segments[i] = last.containing_segment

\* C4: with the alignment unchanged, a query at the point queried last
\* returns the same segment and the same projected point as that query did,
\* hence the same station, offset and side, and the answer taken from the
\* cache is the answer of a search of the segment list.
C4_CacheIsRecomputation ==
    Queried =>
        LET r == SearchBuffers(canvasTool.segments, last.point)
        IN  /\ last.containing_segment = r.closest_segment
            /\ last.closest_point = r.closest_proj_point
            /\ last.hit => /\ last.containing_segment = canvasTool.last_containing_segment
                           /\ last.closest_point = canvasTool.last_closest_point

\* a release answered from the cache, with a segment, at the point a move
\* queried before
C4_Witness ==
    /\ Queried
    /\ last.handler = "canvasReleaseEvent"
    /\ last.hit
    /\ last.containing_segment # None
    /\ last.containing_segment.segment_type = "circular"

----------------------------------------------------------------------------
(* Decomposition: shapes that fail                                         *)

\* the three points that define a circular shape lie on one straight line
Collinear(shape) ==
    /\ shape.type = "circular"
    /\ Len(shape.pts) = 3
    /\ IsZero(Cross(RSub(shape.pts[2].x, shape.pts[1].x), RSub(shape.pts[2].y, shape.pts[1].y),
                    RSub(shape.pts[3].x, shape.pts[1].x), RSub(shape.pts[3].y, shape.pts[1].y)))

\* a line of two different vertices
ValidLine(shape) ==
    /\ shape.type = "line"
    /\ Len(shape.pts) = 2
    /\ Polyline(shape.pts)[1] # Polyline(shape.pts)[2]

\* C5: a compound curve of a circular shape whose three points are
\* collinear followed by one valid two-vertex line is decomposed into
\* exactly one segment, the line: the arc produces no segment and the line
\* after it is still decomposed.
C5_CollinearArcSkipped ==
    /\ mapTool # None
    /\ mapTool.alignmentGeom.compound
    /\ Len(mapTool.alignmentGeom.shapes) = 2
    /\ Collinear(mapTool.alignmentGeom.shapes[1])
    /\ ValidLine(mapTool.alignmentGeom.shapes[2])
    => /\ Len(mapTool.segments) = 1
       /\ mapTool.segments[1].segment_type = "line"

----------------------------------------------------------------------------
(* Gestures                                                                *)

\* C6: a release of the left button emits no createPoint when the pointer
\* moved more than 3 map units in x or in y away from where it was pressed
\* while the button was held.
C6_NoPointAfterDrag ==
    /\ last.handler = "canvasReleaseEvent"
    /\ RGt(RAbs(travel.x), I(3)) \/ RGt(RAbs(travel.y), I(3))
    => last.signals = <<>>

----------------------------------------------------------------------------
(* Inverse lookup                                                          *)

\* the last handler was createPointDialog
Entered == last.handler = "createPointDialog"

\* the segments _calculatePointFromStationOffset searches
InverseSegments ==
    parseAlignmentSegments(<<>>, CurrentAlignment.geom, CurrentAlignment.startMeasure, I(0))

\* C7: the inverse lookup selects a segment exactly when the station lies in
\* the measure range of some segment, both ends included; when it lies in
\* none, _calculatePointFromStationOffset returns no point and
\* createPointDialog adds no record to the point layer.
C7_StationInRange ==
    [][ Entered' =>
            /\ last'.segment # None
                   <=> \E i \in 1..Len(InverseSegments) :
                           /\ RLe(InverseSegments[i].start_measure, last'.station)
                           /\ RLe(last'.station, InverseSegments[i].end_measure)
            /\ last'.segment = None => last'.ret = None /\ pointLayer' = pointLayer ]_vars

\* a station that is the end measure of a segment was entered and a record added
C7_Witness ==
    /\ Entered
    /\ last.segment # None
    /\ last.station = last.segment.end_measure
    /\ Len(pointLayer.features) = 1

\* direction of an arc from the order of its three points: to the right of
\* the chord from the first to the last point lies the second point of a
\* counterclockwise arc
TurnsClockwise(segment) ==
    LET p1 == segment.geometry[1]  p_mid == segment.geometry[2]  p2 == segment.geometry[3]
    IN  RGt(Cross(RSub(p2.x, p1.x), RSub(p2.y, p1.y),
                  RSub(p_mid.x, p1.x), RSub(p_mid.y, p1.y)), I(0))

\* C8: on an arc the inverse lookup returns no point exactly when the
\* offset is not zero, the side is the one towards the centre (right on a
\* clockwise arc, left on a counterclockwise one) and the offset is at least
\* the radius.
C8_FailsOnlyBeyondCentre ==
    /\ Entered
    /\ last.segment # None
    /\ last.segment.segment_type = "circular"
    => (last.ret = None
            <=> /\ ~IsZero(last.offset)
                /\ last.side = (IF TurnsClockwise(last.segment) THEN "right" ELSE "left")
                /\ RGe(last.offset, last.segment.radius))

\* the lookup refused an offset on an arc
OffsetExceedsRadius ==
    /\ Entered
    /\ \E k \in 1..Len(last.messages) : last.messages[k].title = "Invalid Offset"

\* the value _calculatePointFromStationOffset returns when no segment
\* holds the station
OutOfRangeValue == PointOnSegment(None, I(0), I(0), "left").ret

\* C9: the value the inverse lookup returns when the offset exceeds the
\* radius differs from the value it returns when the station is out of
\* range, and carries the greatest offset allowed.
C9_FailuresDistinguished ==
    OffsetExceedsRadius =>
        /\ last.ret # OutOfRangeValue
        /\ "maximum" \in DOMAIN last.ret

\* C10: for every station within the measure range of a line segment the
\* inverse lookup returns a point at offset 0, and that point, projected on
\* that segment by the forward lookup, has that station to within 1e-3.
C10_LineRoundTrip ==
    /\ Entered
    /\ last.segment # None
    /\ last.segment.segment_type = "line"
    /\ IsZero(last.offset)
    => /\ last.ret # None
       /\ LET proj == ProjectOnSegment(last.segment, last.ret)
              fwd == StationOffsetSide(last.segment, proj, last.ret)
          IN  RLe(RAbs(RSub(fwd.station, last.station)), Norm(1, 1000))

----------------------------------------------------------------------------
(* Forward lookup: lines                                                   *)

\* the last handler was a move that queried the segments
Moved == last.handler = "canvasMoveEvent" /\ last.queried

\* the point of the centreline of a segment closest to p, with its distance
\* along the centreline and from p
Foot(segment, p) ==
    LocateFrom(segment.geometry, 1, p, I(0),
               [along |-> I(0), dist |-> PosInf, pt |-> segment.geometry[1]])

\* the cross product of the direction of a segment, from its first to its
\* last vertex, and the vector from foot to p
SideCross(segment, foot, p) ==
    Cross(RSub(segment.geometry[Len(segment.geometry)].x, segment.geometry[1].x),
          RSub(segment.geometry[Len(segment.geometry)].y, segment.geometry[1].y),
          RSub(p.x, foot.x), RSub(p.y, foot.y))

\* what the forward lookup reports for a point p whose foot on the segment is f
LineReport(segment, p, f) ==
    [signal |-> "updateInfo",
     station |-> RAdd(segment.start_measure, f.along),
     offset |-> f.dist,
     side |-> IF RLt(RAbs(SideCross(segment, f.pt, p)), [n |-> 1, d |-> 1000]) THEN "on-line"
              ELSE IF RGt(SideCross(segment, f.pt, p), I(0)) THEN "left"
              ELSE "right"]

\* C11: for a point in the corridor of a line segment the forward lookup
\* reports the start measure plus the distance along the segment to the
\* foot of the point, the distance from the point to the foot, and the side
\* by the sign of cross(segment direction, point - foot), on-line when
\* |cross| < 0.001; on the line (0,0,m=0)-(1000,0,m=1000) with a corridor
\* of 500 the point (500,100) has station 500, offset 100, side left.
C11_LineStationOffsetSide ==
    /\ Moved /\ last.containing_segment # None /\ ~last.raised
       /\ last.containing_segment.segment_type = "line"
       => last.signals = << LineReport(last.containing_segment, last.point,
                                       Foot(last.containing_segment, last.point)) >>
    /\ Moved /\ canvasTool.alignmentName = "S" /\ IsZero(canvasTool.startMeasure)
       /\ last.point = IPt(500, 100) /\ ~last.raised
       => last.signals = << [signal |-> "updateInfo", station |-> I(500),
                             offset |-> I(100), side |-> "left"] >>

\* the point (500,100) was looked up on the line of 1000 units
C11_Witness ==
    /\ Moved
    /\ canvasTool.alignmentName = "S"
    /\ IsZero(canvasTool.startMeasure)
    /\ last.point = IPt(500, 100)
    /\ last.containing_segment # None

\* the buffer of the segment is set and holds p
InCorridor(segment, p) ==
    segment.square_buffer # None /\ BufferContains(segment.square_buffer, p)

\* the foot f of a point lies within a segment, not at one of its ends
FootWithin(segment, f) ==
    RGt(f.along, I(0)) /\ RLt(f.along, PathLength(segment.geometry, 1))

\* the corridor of a line segment about the foot f of p
CorridorHolds(segment, p, f) ==
    /\ FootWithin(segment, f) /\ RLt(f.dist, segment.bufferDistance)
       => InCorridor(segment, p)
    /\ RGt(f.dist, segment.bufferDistance) => ~InCorridor(segment, p)

\* C12: for every line segment, also one built from a line of more than two
\* vertices, a point whose distance to the centreline is less than the
\* corridor half-width and whose foot lies within the segment is in the
\* segment's buffer, and a point farther than the half-width is not.
C12_LineCorridor ==
    Moved =>
        \A i \in 1..Len(canvasTool.segments) :
            canvasTool.segments[i].segment_type = "line"
            => CorridorHolds(canvasTool.segments[i], last.point,
                             Foot(canvasTool.segments[i], last.point))

----------------------------------------------------------------------------
(* Forward lookup: signals of a move                                       *)

\* the point lies in the buffer of a segment of the tool
InSomeBuffer(p) ==
    \E i \in 1..Len(canvasTool.segments) : InCorridor(canvasTool.segments[i], p)

\* C13: a move handled while no drag is in progress emits exactly one
\* signal, updateInfo or outOfBounds, and updateInfo only for a point in
\* the buffer of some segment; a move handled while the left button is held
\* emits no signal.
C13_OneSignalPerMove ==
    last.handler = "canvasMoveEvent" =>
        IF last.queried
        THEN /\ Len(last.signals) = 1
             /\ last.signals[1].signal \in { "updateInfo", "outOfBounds" }
             /\ last.signals[1].signal = "updateInfo" => InSomeBuffer(last.point)
        ELSE last.signals = <<>>

----------------------------------------------------------------------------
(* Forward lookup: the segments are left as they are                       *)

\* the last handler was a query that found no segment or whose try block
\* raised
Failed == Queried /\ (last.containing_segment = None \/ last.raised)

\* C14: no move or release event, whether its query finds a segment, finds
\* none or raises, changes a segment (geometry, measures, centre, radius,
\* buffer) or the length or order of the segment list, and a query after
\* one that found no segment or raised still gives the answer of a search
\* of the segments.
C14_QueryLeavesSegments ==
    [][ last'.handler \in { "canvasMoveEvent", "canvasReleaseEvent" }
        => /\ canvasTool'.segments = canvasTool.segments
           /\ Failed /\ last'.queried
              => /\ last'.containing_segment
                       = SearchBuffers(canvasTool.segments, last'.point).closest_segment
                 /\ last'.closest_point
                       = SearchBuffers(canvasTool.segments, last'.point).closest_proj_point ]_vars

\* a move whose try block raised, on a tool of two segments that both have
\* a buffer: outOfBounds was emitted for a point a segment holds
C14_Witness ==
    /\ Queried
    /\ last.handler = "canvasMoveEvent"
    /\ last.raised
    /\ last.signals = << [signal |-> "outOfBounds"] >>
    /\ Len(canvasTool.segments) = 2
    /\ \A i \in 1..2 : canvasTool.segments[i].square_buffer # None

----------------------------------------------------------------------------
(* Forward lookup: segments without a buffer                               *)

\* C15: a segment whose buffer is unset is never the containing segment
\* _isPointInBuffers returns, whatever the point and the segment list.
C15_UnsetBufferNeverReturned ==
    Queried =>
        \/ last.containing_segment = None
        \/ last.containing_segment.square_buffer # None

\* a search of a segment list that holds a segment with no buffer
C15_Witness ==
    /\ Queried
    /\ ~last.hit
    /\ \E i \in 1..Len(canvasTool.segments) : canvasTool.segments[i].square_buffer = None

----------------------------------------------------------------------------
(* Decomposition: shape by shape                                           *)

\* the curve the tool decomposed has one shape, as the single shape of the
\* alignment or as the only component of a compound curve
OneShape == mapTool # None /\ Len(mapTool.alignmentGeom.shapes) = 1

\* that shape
TheShape == mapTool.alignmentGeom.shapes[1]

\* C16: a line shape of n >= 2 vertices, as a component of a compound curve
\* or as the single shape of the alignment, gives n - 1 line segments, the
\* k-th from vertex k to vertex k + 1 and ending at the measure written
\* next to vertex k + 1.
C16_LinePerVertexPair ==
    OneShape /\ TheShape.type = "line" /\ Len(TheShape.pts) >= 2 =>
        /\ Len(mapTool.segments) = Len(TheShape.pts) - 1
        /\ \A k \in 1..Len(mapTool.segments) :
               /\ mapTool.segments[k].segment_type = "line"
               /\ mapTool.segments[k].geometry = Polyline(SubSeq(TheShape.pts, k, k + 1))
               /\ mapTool.segments[k].end_measure = TheShape.pts[k + 1].m

\* the three vertices from the 1-based index j on are not on one straight line
Bends(pts, j) ==
    ~IsZero(CrossAbout(Pt(pts[j].x, pts[j].y), Pt(pts[j + 1].x, pts[j + 1].y),
                       Pt(pts[j + 2].x, pts[j + 2].y)))

\* C17: a circular shape of exactly three vertices, not on one line, gives
\* exactly one arc segment, ending at the measure written next to the third
\* vertex, as a component of a compound curve and as the single shape of
\* the alignment.
C17_ArcOfThreeVertices ==
    OneShape /\ TheShape.type = "circular" /\ Len(TheShape.pts) = 3
    /\ Bends(TheShape.pts, 1) =>
        /\ Len(mapTool.segments) = 1
        /\ mapTool.segments[1].segment_type = "circular"
        /\ mapTool.segments[1].geometry = Polyline(TheShape.pts)
        /\ mapTool.segments[1].end_measure = TheShape.pts[3].m

\* C18: a circular shape of n > 3 vertices is taken in windows of three
\* vertices that advance by two, so that a window starts at the vertex the
\* one before it ends at: window k (from 0) holds the vertices 2k, 2k+1 and
\* 2k+2 and gives one arc segment ending at the measure of vertex 2k+2, and
\* there are floor((n-1)/2) arcs.
C18_ArcWindows ==
    OneShape /\ TheShape.type = "circular" /\ Len(TheShape.pts) > 3
    /\ (\A w \in 1..((Len(TheShape.pts) - 1) \div 2) : Bends(TheShape.pts, 2 * w - 1)) =>
        /\ Len(mapTool.segments) = (Len(TheShape.pts) - 1) \div 2
        /\ \A w \in 1..Len(mapTool.segments) :
               /\ mapTool.segments[w].segment_type = "circular"
               /\ mapTool.segments[w].geometry
                      = Polyline(SubSeq(TheShape.pts, 2 * w - 1, 2 * w + 1))
               /\ mapTool.segments[w].end_measure = TheShape.pts[2 * w + 1].m
               /\ w > 1 => mapTool.segments[w].geometry[1] = mapTool.segments[w - 1].geometry[3]

\* the single shape of an alignment, of five vertices, was taken in two arcs
C18_Witness ==
    /\ OneShape
    /\ ~mapTool.alignmentGeom.compound
    /\ TheShape.type = "circular"
    /\ Len(TheShape.pts) = 5
    /\ Len(mapTool.segments) = 2

\* C19: the centre of the circle through three points is refused with an
\* error for every three points on one straight line, also when the line
\* is horizontal or vertical.
C19_CollinearCentreRaises ==
    mapTool # None =>
        \A k \in 1..Len(mapTool.alignmentGeom.shapes) :
            Collinear(mapTool.alignmentGeom.shapes[k])
            => circle_center_from_three_points(
                   Polyline(mapTool.alignmentGeom.shapes[k].pts)[1],
                   Polyline(mapTool.alignmentGeom.shapes[k].pts)[2],
                   Polyline(mapTool.alignmentGeom.shapes[k].pts)[3]).err

\* C20: a line whose two vertices are the same point gives no segment, so
\* the segment list holds no line segment of zero length for a lookup to
\* select.
C20_NoZeroLengthLine ==
    mapTool # None =>
        \A i \in 1..Len(mapTool.segments) :
            mapTool.segments[i].segment_type = "line"
            => mapTool.segments[i].geometry[1]
                   # mapTool.segments[i].geometry[Len(mapTool.segments[i].geometry)]

----------------------------------------------------------------------------
(* Forward lookup: the segment chosen                                      *)

\* the distance from p to its projection on the centreline of a segment
OffsetTo(segment, p) == distance_between_points(ProjectOnSegment(segment, p), p)

\* segment i holds p in its buffer, no segment that does is nearer to p,
\* and those before it in the list are farther
Nearest(segments, i, p) ==
    /\ InCorridor(segments[i], p)
    /\ \A j \in 1..Len(segments) :
           InCorridor(segments[j], p) =>
               IF j < i THEN RGt(OffsetTo(segments[j], p), OffsetTo(segments[i], p))
               ELSE RGe(OffsetTo(segments[j], p), OffsetTo(segments[i], p))

\* C21: of the segments of the tool whose buffer holds the query point,
\* _isPointInBuffers returns the one whose centreline projection is nearest
\* to the point, the earliest in the list when several are as near, with
\* that projection; when no buffer holds the point it returns no segment;
\* either answer is left in the cache for the point.
C21_NearestContainingSegment ==
    Queried =>
        /\ IF InSomeBuffer(last.point)
           THEN \E i \in 1..Len(canvasTool.segments) :
                    /\ Nearest(canvasTool.segments, i, last.point)
                    /\ last.containing_segment = canvasTool.segments[i]
                    /\ last.closest_point = ProjectOnSegment(canvasTool.segments[i], last.point)
           ELSE last.containing_segment = None /\ last.closest_point = None
        /\ canvasTool.last_point = last.point
        /\ canvasTool.last_containing_segment = last.containing_segment
        /\ canvasTool.last_closest_point = last.closest_point

----------------------------------------------------------------------------
(* Arcs: the direction of rotation                                         *)

\* an arc segment of the tool whose centre is a point of the plane
IsArc(segment) ==
    /\ segment.segment_type = "circular"
    /\ segment.center # None
    /\ IsFinite(segment.center.x) /\ IsFinite(segment.center.y)

\* C22: the curvature computed for an arc is positive exactly when the arc
\* from p1 through pMid to p2 turns clockwise and negative exactly when it
\* turns counterclockwise, whatever its sweep, half a turn and more included.
C22_CurvatureSign ==
    mapTool # None =>
        \A i \in 1..Len(mapTool.segments) :
            IsArc(mapTool.segments[i]) =>
                /\ RGt(cached_curvature(mapTool.segments[i]), I(0))
                       <=> TurnsClockwise(mapTool.segments[i])
                /\ RLt(cached_curvature(mapTool.segments[i]), I(0))
                       <=> ~TurnsClockwise(mapTool.segments[i])

----------------------------------------------------------------------------
(* Arcs: the sweep of the buffer                                           *)

\* the sweep of an arc segment from the angles of its three points
GeometricSweepOf(segment) ==
    geometric_sweep(NormAngle(segment.geometry[1], segment.center),
                    NormAngle(segment.geometry[2], segment.center),
                    NormAngle(segment.geometry[3], segment.center),
                    buffer_is_clockwise(segment.geometry[1], segment.geometry[2],
                                        segment.geometry[3], segment.center))

\* the measure span of a segment
MeasureSpan(segment) == RSub(segment.end_measure, segment.start_measure)

\* the buffer of an arc whose geometric sweep is g
SweepHolds(segment, g) ==
    /\ segment.square_buffer.sweep
           = (IF RGt(RAbs(RSub(RMul(segment.radius, g), MeasureSpan(segment))), I(1))
              THEN RDiv(MeasureSpan(segment), segment.radius)
              ELSE g)
    /\ RGe(segment.square_buffer.sweep, I(0))
    /\ segment.square_buffer.num_points >= 50

\* C23: when radius * geometric sweep differs from the measure span of an
\* arc by more than 1, the sweep of its buffer is the measure span divided
\* by the radius, and else the geometric sweep; either way the sweep is not
\* negative and the ring has at least 50 samples on each side.  (The ring
\* is kept as the sector it samples, which is closed.)
C23_ArcBufferSweep ==
    mapTool # None =>
        \A i \in 1..Len(mapTool.segments) :
            IsArc(mapTool.segments[i]) /\ mapTool.segments[i].square_buffer # None
            => SweepHolds(mapTool.segments[i], GeometricSweepOf(mapTool.segments[i]))

\* C24: for every arc the direction of rotation its buffer is built with
\* (is_clockwise of calculate_square_buffer) is the direction the forward
\* lookup takes for station and side and the inverse lookup for the angle
\* (curvature > 0 of _calculate_curvature).
C24_OneDirectionPerArc ==
    mapTool # None =>
        \A i \in 1..Len(mapTool.segments) :
            IsArc(mapTool.segments[i]) /\ mapTool.segments[i].square_buffer # None
            => mapTool.segments[i].square_buffer.clockwise
                   = RGt(cached_curvature(mapTool.segments[i]), I(0))

----------------------------------------------------------------------------
(* Forward lookup: the station and the measures of the segment             *)

\* C25: every station a forward lookup emits lies in the measure range of
\* the segment selected as containing, both ends included, on lines and on
\* arcs, also on a line of a compound curve whose measure span differs from
\* its length.
C25_StationInSegmentRange ==
    Queried /\ last.containing_segment # None /\ ~last.raised =>
        \A k \in 1..Len(last.signals) :
            /\ RLe(last.containing_segment.start_measure, last.signals[k].station)
            /\ RLe(last.signals[k].station, last.containing_segment.end_measure)

----------------------------------------------------------------------------
(* Inverse and forward lookup: the side                                    *)

\* the segments of the map tool that monitors the current alignment, with
\* the corridor of the alignment
ForwardSegments ==
    parseAlignmentSegments(<<>>, CurrentAlignment.geom, CurrentAlignment.startMeasure,
                           CurrentAlignment.bufferDistance)

\* that map tool, before its first query
ForwardTool ==
    [AlignmentMapTool(CurrentAlignment.geom, CurrentAlignment.startMeasure,
                      CurrentAlignment.name, CurrentAlignment.bufferDistance)
        EXCEPT !.segments = ForwardSegments]

\* the segment of the map tool that the segment of the inverse lookup is
LookedUp(forward, segment) ==
    /\ forward.geometry = segment.geometry
    /\ forward.start_measure = segment.start_measure
    /\ forward.square_buffer # None

\* a point at the distance rho from a centre: the side of a point about an
\* arc depends on its distance from the centre alone
AtDistance(center, rho) == Pt(RAdd(center.x, rho), center.y)

\* the buffer of an arc holds the point center + rho * (cos angle, sin angle)
PolarInSector(buf, polar) ==
    InSector(buf, RAbs(polar.rho),
             TurnedAngle(RingClockwise(buf), buf.angle1, RMod(polar.angle, TwoPi)))

\* the directions (cos a, sin a) with rational components among those whose
\* angle math.atan2 has in the model
UnitVectors ==
    { Pt(Norm(x * c[1], c[3]), Norm(y * c[2], c[3])) :
          x \in { 1, -1 }, y \in { 1, -1 },
          c \in { << 1, 0, 1 >>, << 0, 1, 1 >>, << 4, 3, 5 >>, << 3, 4, 5 >> } }

\* the directions of the angle: one when math.cos and math.sin of the angle
\* are rational numbers of the model, none otherwise
DirectionsAt(angle) ==
    { u \in UnitVectors : NormAngle(u, IPt(0, 0)) = RMod(angle, TwoPi) }

\* the map point center + rho * (cos angle, sin angle) in the direction u
Cartesian(polar, u) ==
    Pt(RAdd(polar.center.x, RMul(polar.rho, u.x)),
       RAdd(polar.center.y, RMul(polar.rho, u.y)))

\* the side a query of the map tool gives the map point pt, when the
\* corridor of the segment holds it
SideAt(forward, pt) ==
    IF InCorridor(forward, pt)
    THEN (IF Query(ForwardTool, pt).containing_segment = None THEN "none"
          ELSE Query(ForwardTool, pt).sos.side)
    ELSE "outside"

\* the side the forward lookup gives the point ret that the inverse lookup
\* returned on a segment, when the corridor of the segment holds the point.
\* The point goes through a query of the map tool: a point on a line as it
\* is, a point on an arc where its coordinates center + rho * (cos, sin)
\* are rational numbers.  At the other angles of an arc the corridor test is
\* made on the radius and the angle of the point, and the side is the one
\* the station/offset/side block takes for a point at that distance from
\* the centre.
ForwardSide(forward, ret) ==
    IF forward.segment_type # "circular" THEN SideAt(forward, ret)
    ELSE IF DirectionsAt(ret.angle) # {}
    THEN SideAt(forward, Cartesian(ret, CHOOSE u \in DirectionsAt(ret.angle) : TRUE))
    ELSE IF PolarInSector(forward.square_buffer, ret)
    THEN determine_side_for_circular_string(
             forward.center, forward.radius,
             AtDistance(forward.center, RAbs(ret.rho)), cached_curvature(forward))
    ELSE "outside"

\* the inverse lookup returned a point for an offset of more than 0.001
OffsetPoint ==
    /\ Entered
    /\ last.segment # None
    /\ last.ret # None
    /\ RGt(last.offset, [n |-> 1, d |-> 1000])

\* C26: a point the inverse lookup returns for a station, an offset of more
\* than 0.001 and a side, when it lies in the corridor of the segment, is
\* given the same side by the forward lookup, on lines and on clockwise
\* and counterclockwise arcs.
C26_SideRoundTrip ==
    OffsetPoint =>
        \A i \in 1..Len(ForwardSegments) :
            LookedUp(ForwardSegments[i], last.segment)
            => ForwardSide(ForwardSegments[i], last.ret) \in { "outside", last.side }

\* a point returned to the left of a counterclockwise arc, in its corridor,
\* at an angle where its coordinates are rational: a query of the map tool
\* gave it the side left
C26_Witness ==
    /\ OffsetPoint
    /\ last.side = "left"
    /\ last.segment.segment_type = "circular"
    /\ ~TurnsClockwise(last.segment)
    /\ DirectionsAt(last.ret.angle) # {}
    /\ \E i \in 1..Len(ForwardSegments) :
           /\ LookedUp(ForwardSegments[i], last.segment)
           /\ ForwardSide(ForwardSegments[i], last.ret) = "left"

----------------------------------------------------------------------------
(* Monitoring: the tool and the selected alignment                         *)

\* C27: after any sequence of addAlignment, selection changes,
\* toggleMonitoring and clearAllAlignments, while monitoring is active the
\* map tool has the name, the start measure, the corridor width and the
\* geometry of the selected alignment alignments[currentAlignmentIndex],
\* and its segment list is one decomposition of that alignment, with no
\* segment twice.
C27_ToolFollowsSelection ==
    monitorChecked =>
        /\ mapTool # None
        /\ 0 <= currentAlignmentIndex /\ currentAlignmentIndex < Len(alignments)
        /\ mapTool.alignmentName = CurrentAlignment.name
        /\ mapTool.startMeasure = CurrentAlignment.startMeasure
        /\ mapTool.bufferDistance = CurrentAlignment.bufferDistance
        /\ mapTool.alignmentGeom = CurrentAlignment.geom
        /\ mapTool.segments = ForwardSegments

\* the selection was changed while monitoring, back to the first of two
\* alignments
C27_Witness ==
    /\ monitorChecked
    /\ last.handler = "onAlignmentSelectionChanged"
    /\ Len(alignments) = 2
    /\ currentAlignmentIndex = 0
    /\ Len(mapTool.segments) >= 1

----------------------------------------------------------------------------
(* Monitoring: stopped                                                     *)

\* the handlers of the pointer
PointerHandlers == { "canvasPressEvent", "canvasMoveEvent", "canvasReleaseEvent" }

\* C28: once monitoring has been stopped, by toggleMonitoring(False), by
\* clearAllAlignments or by unload, the plugin holds no map tool, and until
\* monitoring is started again no click or movement of the pointer adds a
\* point record or sends a station, offset and side to the panel: the tool
\* left on the canvas still handles the pointer, and what it emits reaches
\* no slot.
C28_StoppedMonitoringIsSilent ==
    [][ /\ \/ last'.handler \in { "clearAllAlignments", "unload" }
           \/ last'.handler = "toggleMonitoring" /\ ~monitorChecked'
           => mapTool' = None /\ ~monitorChecked'
        /\ ~monitorChecked
           => /\ mapTool = None
              /\ last'.handler \in PointerHandlers
                 => last'.received = <<>> /\ pointLayer' = pointLayer ]_vars

\* after monitoring was stopped the tool left on the canvas handled a click
\* in the corridor of a segment: createPoint was emitted and reached no
\* slot, and the point layer holds no record
C28_Witness ==
    /\ ~monitorChecked
    /\ mapTool = None
    /\ last.handler = "canvasReleaseEvent"
    /\ last.signals # <<>>
    /\ last.received = <<>>
    /\ pointLayer.exists
    /\ pointLayer.features = <<>>

----------------------------------------------------------------------------
(* Decomposition: a shape that raises                                      *)

\* the segments and the running measure after the first k component shapes
\* of the tool's compound curve
ParsedThrough(tool, k) ==
    CompoundShapes(SubSeq(TryBlocks(tool.alignmentGeom, tool.startMeasure), 1, k), 1,
                   [segments |-> <<>>, current_measure |-> tool.startMeasure, err |-> FALSE],
                   tool.bufferDistance)

\* the k-th component shape raises at one of its vertex pairs or arc windows
Raises(tool, k) ==
    TryBlock(TryBlocks(tool.alignmentGeom, tool.startMeasure)[k], 1,
             ParsedThrough(tool, k - 1), tool.bufferDistance).err

\* C29: when the processing of a component shape of a compound curve
\* raises, at whichever vertex pair or arc window, the segment list holds
\* no segment of that shape: those appended for its earlier pairs or
\* windows are not kept.
C29_FailedShapeLeavesNothing ==
    mapTool # None /\ mapTool.alignmentGeom.compound =>
        /\ mapTool.segments = ParsedThrough(mapTool, Len(mapTool.alignmentGeom.shapes)).segments
        /\ \A k \in 1..Len(mapTool.alignmentGeom.shapes) :
               Raises(mapTool, k)
               => Len(ParsedThrough(mapTool, k).segments)
                      = Len(ParsedThrough(mapTool, k - 1).segments)

----------------------------------------------------------------------------
(* Decomposition: the end of a circular shape                              *)

\* the arc windows of the shape all bend, so that none raises
AllWindowsBend(pts) ==
    \A w \in 1..((Len(pts) - 1) \div 2) : Bends(pts, 2 * w - 1)

\* C30: for a circular shape of n > 3 vertices, n odd or even, every
\* vertex lies in at least one arc window, and the last arc segment ends at
\* the last vertex of the shape, with the measure of that vertex as its end
\* measure.
C30_ArcsReachLastVertex ==
    OneShape /\ TheShape.type = "circular" /\ Len(TheShape.pts) > 3
    /\ AllWindowsBend(TheShape.pts) =>
        /\ Len(mapTool.segments) >= 1
        /\ \A v \in 1..Len(TheShape.pts) :
               \E w \in 1..Len(mapTool.segments) :
                   \E c \in 1..3 : mapTool.segments[w].geometry[c] = Polyline(TheShape.pts)[v]
        /\ mapTool.segments[Len(mapTool.segments)].geometry[3]
               = Polyline(TheShape.pts)[Len(TheShape.pts)]
        /\ mapTool.segments[Len(mapTool.segments)].end_measure
               = TheShape.pts[Len(TheShape.pts)].m

====
